---------------------------- MODULE Spec2Model ----------------------------
(***************************************************************************)
(* A model of the ITTF/WTT and TTBL scraping scripts: their parsing        *)
(* heuristics (game scores, player names), the winner inference and the    *)
(* paginated fetch loops.                                                  *)
(*                                                                         *)
(* A Python str is a sequence of one-character strings; Python's None is   *)
(* the value None below, which is no such sequence.                        *)
(***************************************************************************)
EXTENDS Integers, Sequences, FiniteSets, TLC

VARIABLES
    \* ---- game-score parsers (one input string, four parsers)
    games_raw,        \* the input string handed to every parser
    in_tokens,        \* the tokens games_raw was assembled from (ghost)
    parsed,           \* names of the parsers that have run
    games_master,     \* result of master_scrape.parse_games
    games_fabrik,     \* result of FabrikMatchScraper.parse_game_scores
    games_collector,  \* result of FabrikAPIClient.parse_game_scores
    games_scraper,    \* result of ITTFComprehensiveScraper.parse_game_scores
    \* ---- name splitting (one input string, two functions)
    full_name,        \* the input string
    name_tokens,      \* the tokens full_name was assembled from (ghost)
    name_core,        \* full_name without its outer padding (ghost)
    name_run,         \* names of the functions that have run
    nn_result,        \* normalize_name's (first, last, full)
    ppn_result,       \* parse_player_name's (first, last)
    \* ---- master_scrape.py: main and iter_fabrik_matches
    ms_pc,            \* "main" | "fetch" | "rows" | "done" | "crashed"
    years,            \* the years main has still to scrape
    seen_ids,         \* iter_fabrik_matches: seen_ids
    offset,           \* iter_fabrik_matches: offset
    stagnant_pages,   \* iter_fabrik_matches: stagnant_pages
    page,             \* iter_fabrik_matches: the loop variable page
    pending,          \* rows of the fetched page not yet iterated
    new_count,        \* iter_fabrik_matches: new_count
    players,          \* main: players
    matches,          \* main: matches
    player_match_index, \* main: player_match_index
    written,          \* the files main has written
    requests,         \* offsets requested in this year's iteration (history)
    page_log,         \* what each page of this year brought (history)
    ids_returned,     \* identifiers the server has returned this year (history)
    page_fresh,       \* the current page brought one not returned before (history)
    yielded,          \* identifiers of the rows yielded this year (history)
    last_row,         \* the row main processed last (history)
    \* ---- upsert_player called on its own
    up_players,       \* players
    up_calls,         \* the arguments of each call so far (history)
    \* ---- scrape_year / scrape_matches_by_year (one call)
    sy_class,         \* "FabrikMatchScraper" | "ComprehensiveDataCollector"
    sy_pc,            \* "loop" | "await" | "done" | "crashed"
    sy_all_matches,   \* all_matches
    sy_offset,        \* the local variable offset
    sy_requests,      \* the offset each request asked the server for (history)
    \* ---- ITTFComprehensiveScraper.fetch_all_fabrik_matches_for_year (one call)
    cs_pc,            \* "loop" | "await" | "done"
    cs_start,         \* start
    cs_all_len,       \* len(all_matches)
    cs_page,          \* the identifiers of the page fetched last (history)
    \* ---- fabrik_match_scraper.main, up to the scraping
    ap_pc,            \* "start" | "while" | "body" | "proceed" | "exit1"
    ap_argv,          \* sys.argv
    ap_i,             \* i
    ap_years,         \* years
    ap_max_matches,   \* max_matches
    \* ---- ComprehensiveDataCollector.discover_players_from_matches (one call)
    dp_pc,            \* "scan" | "returned" | "raised"
    dp_years,         \* the years still to scan
    dp_discovered,    \* discovered_ids
    dp_players_db,    \* players_db: ittf_id -> the Player's names
    dp_scanned,       \* the matches scraped for each year so far (history)
    \* ---- WTTRestScraper._request_with_retry (one call)
    rr_pc,            \* "attempt" | "returned" | "raised"
    rr_attempt,       \* attempt
    rr_result,        \* "unset" | "json" (the parsed body) | "None"
    rr_requests,      \* what each HTTP request met, with its attempt (history)
    rr_sleeps,        \* every time.sleep, with its attempt (history)
    \* ---- WTTRestScraper.batch_fetch_rankings (one call)
    bf_pc,            \* "loop" | "returned"
    bf_ittf_ids,      \* ittf_ids
    bf_i,             \* the number of ids handled
    bf_results,       \* results
    bf_fetched,       \* each id handed to get_player_rankings, and whether
                      \* its handling raised (history)
    \* ---- scrape_ttbl_enhanced.py (one run of the script)
    tt_pc,            \* "gamedays" | "matches" | "done" | "crashed"
    tt_gameday,       \* gameday
    tt_all_match_ids, \* all_match_ids
    tt_i,             \* i, the position of the match loop
    tt_match_files,   \* matches/match_<id>.json: id -> the kind of JSON in it
    tt_processed,     \* the ids whose games were all processed (history)
    tt_written,       \* the output files written so far
    \* ---- CompletePlayerScraper.scrape_category (one call)
    sc_pc,            \* "loop" | "returned"
    sc_offset,        \* offset
    sc_category_ids,  \* category_ids
    sc_requests,      \* the limitstart of every page request (history)
    sc_yielded,       \* whether each page yielded a player id (history)
    \* ---- scrape_ttbl_enhanced.py: the games of the match loop
    ps_games,         \* the number of games the loop has reached
    ps_player_stats,  \* player_stats: id -> gamesPlayed, wins, losses
    ps_last,          \* the game reached last and the totals before it (ghost)
    \* ---- ITTFComprehensiveScraper.process_matches (the matches of its calls)
    pm_pc,            \* "ready" | "raised"
    pm_processed,     \* the number of matches the calls have reached
    pm_all_players,   \* self.all_players: id -> the record's "gender"
                      \* (NoGender while the record has no such key)
    pm_player_genders,\* self.player_genders
    pm_first_gender   \* the first gender stored for each player (history)

gameVars == <<games_raw, in_tokens, parsed, games_master, games_fabrik,
              games_collector, games_scraper>>

nameVars == <<full_name, name_tokens, name_core, name_run, nn_result,
              ppn_result>>

iterVars == <<seen_ids, offset, stagnant_pages, page, pending, new_count>>

mainVars == <<players, matches, player_match_index, written, last_row>>

histVars == <<requests, page_log, ids_returned, page_fresh, yielded>>

upsertVars == <<up_players, up_calls>>

masterVars == <<ms_pc, years, iterVars, mainVars, histVars, upsertVars>>

yearVars == <<sy_class, sy_pc, sy_all_matches, sy_offset, sy_requests>>

csVars == <<cs_pc, cs_start, cs_all_len, cs_page>>

argVars == <<ap_pc, ap_argv, ap_i, ap_years, ap_max_matches>>

discoverVars == <<dp_pc, dp_years, dp_discovered, dp_players_db, dp_scanned>>

loopVars == <<yearVars, csVars, argVars, discoverVars>>

retryVars == <<rr_pc, rr_attempt, rr_result, rr_requests, rr_sleeps>>

batchVars == <<bf_pc, bf_ittf_ids, bf_i, bf_results, bf_fetched>>

wttVars == <<retryVars, batchVars>>

ttblVars == <<tt_pc, tt_gameday, tt_all_match_ids, tt_i, tt_match_files,
              tt_processed, tt_written>>

categoryVars == <<sc_pc, sc_offset, sc_category_ids, sc_requests, sc_yielded>>

statsVars == <<ps_games, ps_player_stats, ps_last>>

genderVars == <<pm_pc, pm_processed, pm_all_players, pm_player_genders,
                pm_first_gender>>

playerVars == <<categoryVars, statsVars, genderVars>>

vars == <<gameVars, nameVars, masterVars, loopVars, wttVars, ttblVars,
          playerVars>>

None == <<"None">>

(***************************************************************************)
(* Python str primitives                                                   *)
(***************************************************************************)
Whitespace == {" "}
Digits == {"0", "1", "2"}
UpperChars == {"L", "I", "W", "U"}
LowerChars == {"l", "i", "u"}

RECURSIVE str_lstrip(_)
str_lstrip(s) ==
    IF s = <<>> THEN s
    ELSE IF Head(s) \in Whitespace THEN str_lstrip(Tail(s)) ELSE s

RECURSIVE str_rstrip(_)
str_rstrip(s) ==
    IF s = <<>> THEN s
    ELSE IF s[Len(s)] \in Whitespace THEN str_rstrip(SubSeq(s, 1, Len(s) - 1))
    ELSE s

str_strip(s) == str_rstrip(str_lstrip(s))

\* s.split(): the maximal runs of non-whitespace characters, in order.
RECURSIVE split_from(_, _, _)
split_from(s, cur, acc) ==
    IF s = <<>> THEN (IF cur = <<>> THEN acc ELSE Append(acc, cur))
    ELSE IF Head(s) \in Whitespace
         THEN split_from(Tail(s), <<>>, IF cur = <<>> THEN acc ELSE Append(acc, cur))
         ELSE split_from(Tail(s), Append(cur, Head(s)), acc)

str_split(s) == split_from(s, <<>>, <<>>)

\* s.split(sep): the pieces between every occurrence of the character sep.
RECURSIVE split_on_from(_, _, _, _)
split_on_from(s, sep, cur, acc) ==
    IF s = <<>> THEN Append(acc, cur)
    ELSE IF Head(s) = sep
         THEN split_on_from(Tail(s), sep, <<>>, Append(acc, cur))
         ELSE split_on_from(Tail(s), sep, Append(cur, Head(s)), acc)

str_split_on(s, sep) == split_on_from(s, sep, <<>>, <<>>)

\* s.split(sep, 1): cut at the first occurrence of sep only.
RECURSIVE index_of(_, _)
index_of(s, c) ==
    IF s = <<>> THEN 0
    ELSE IF Head(s) = c THEN 1
    ELSE LET r == index_of(Tail(s), c) IN IF r = 0 THEN 0 ELSE r + 1

str_split_once(s, sep) ==
    LET i == index_of(s, sep) IN
    IF i = 0 THEN <<s>>
    ELSE <<SubSeq(s, 1, i - 1), SubSeq(s, i + 1, Len(s))>>

str_contains(s, c) == \E i \in 1..Len(s) : s[i] = c

\* sep.join(parts) with sep = " "
RECURSIVE str_join(_)
str_join(parts) ==
    IF parts = <<>> THEN <<>>
    ELSE IF Len(parts) = 1 THEN parts[1]
    ELSE parts[1] \o <<" ">> \o str_join(Tail(parts))

\* s.isupper(): at least one cased character and no lower-case one.
str_isupper(s) ==
    /\ \E i \in 1..Len(s) : s[i] \in UpperChars
    /\ \A i \in 1..Len(s) : s[i] \notin LowerChars

char_isalpha(c) == c \in UpperChars \cup LowerChars

DigitVal(c) == CASE c = "0" -> 0 [] c = "1" -> 1 [] c = "2" -> 2

RECURSIVE digits_value(_, _)
digits_value(s, acc) ==
    IF s = <<>> THEN acc ELSE digits_value(Tail(s), 10 * acc + DigitVal(Head(s)))

\* An Optional[int]: NoInt for None (or a raised ValueError), <<n>> for n.
NoInt == <<>>
SomeInt(n) == <<n>>
IntOf(o) == o[1]

\* int(s): an optional sign followed by one or more digits; anything else
\* raises ValueError, which is the result NoInt here.
py_int(s) ==
    LET t == str_strip(s)
        signed == t # <<>> /\ Head(t) \in {"-", "+"}
        body == IF signed THEN Tail(t) ELSE t
    IN  IF body = <<>> \/ \E i \in 1..Len(body) : body[i] \notin Digits
        THEN NoInt
        ELSE IF signed /\ Head(t) = "-" THEN SomeInt(0 - digits_value(body, 0))
        ELSE SomeInt(digits_value(body, 0))

(***************************************************************************)
(* master_scrape.py: safe_int, parse_games                                 *)
(***************************************************************************)
safe_int(value) == IF value = None THEN NoInt ELSE py_int(value)

RECURSIVE parse_games_loop(_, _, _)
parse_games_loop(tokens, idx, games) ==
    IF tokens = <<>> THEN games
    ELSE LET token == Head(tokens)
             rest == Tail(tokens)
         IN  IF ~str_contains(token, ":")
             THEN parse_games_loop(rest, idx + 1, games)
             ELSE LET lr == str_split_once(token, ":")
                      a == safe_int(str_strip(lr[1]))
                      b == safe_int(str_strip(lr[2]))
                  IN  IF a = NoInt \/ b = NoInt
                      THEN parse_games_loop(rest, idx + 1, games)
                      ELSE parse_games_loop(rest, idx + 1,
                               Append(games, [game_number |-> idx,
                                              a_points |-> IntOf(a),
                                              x_points |-> IntOf(b)]))

\* A plausible slip: numbering the records by their own count.
RECURSIVE parse_games_renumber(_, _)
parse_games_renumber(games, k) ==
    IF games = <<>> THEN <<>>
    ELSE <<[Head(games) EXCEPT !.game_number = k]>>
             \o parse_games_renumber(Tail(games), k + 1)

parse_games_by_count(raw) ==
    parse_games_renumber(parse_games_loop(str_split(str_strip(raw)), 1, <<>>), 1)

parse_games(raw) ==
    LET s == str_strip(raw) IN
    IF s = <<>> THEN <<>> ELSE parse_games_loop(str_split(s), 1, <<>>)

(***************************************************************************)
(* fabrik_match_scraper.py: FabrikMatchScraper.parse_game_scores           *)
(***************************************************************************)
RECURSIVE game_scores_loop(_, _, _, _)
game_scores_loop(game_strs, i, first_number, games) ==
    IF game_strs = <<>> THEN games
    ELSE LET game_str == Head(game_strs)
             rest == Tail(game_strs)
             parts == str_split_on(game_str, ":")
             p == IF Len(parts) = 2 THEN py_int(str_strip(parts[1])) ELSE NoInt
             o == IF Len(parts) = 2 /\ p # NoInt
                  THEN py_int(str_strip(parts[2])) ELSE NoInt
         IN  IF game_str # <<>> /\ str_contains(game_str, ":")
                /\ Len(parts) = 2 /\ p # NoInt /\ o # NoInt
             THEN game_scores_loop(rest, i + 1, first_number,
                      Append(games, [game_number |-> i + first_number,
                                     player_score |-> IntOf(p),
                                     opponent_score |-> IntOf(o)]))
             ELSE game_scores_loop(rest, i + 1, first_number, games)

\* enumerate(game_strs, 1) and "game_number": i
FabrikMatchScraper_parse_game_scores(games_string) ==
    game_scores_loop(str_split(str_strip(games_string)), 1, 0, <<>>)

(***************************************************************************)
(* comprehensive_collector.py: FabrikAPIClient.parse_game_scores           *)
(***************************************************************************)
\* enumerate(game_strs, 1) and "game_number": i + 1
FabrikAPIClient_parse_game_scores(games_string) ==
    game_scores_loop(str_split(str_strip(games_string)), 1, 1, <<>>)

(***************************************************************************)
(* comprehensive_scraper.py: ITTFComprehensiveScraper.parse_game_scores    *)
(***************************************************************************)
\* enumerate(games_string.split()) and "game_number": i + 1; int() strips
\* the whitespace of its argument itself.
ITTFComprehensiveScraper_parse_game_scores(games_string) ==
    IF games_string = <<>> THEN <<>>
    ELSE game_scores_loop(str_split(str_strip(games_string)), 0, 1, <<>>)

(***************************************************************************)
(* Inputs of the game-score parsers                                        *)
(***************************************************************************)
MaxTokens == 3

\* well-formed scores, ties, and every way a token is malformed
GameTokens ==
    { <<"2", ":", "1">>, <<"1", ":", "2">>, <<"1", ":", "1">>,
      <<"1", "0", ":", "2">>, <<"x">>, <<"1", ":", "x">>, <<":", "2">>,
      <<"1", ":", "2", ":", "1">> }

Spaces(n) == [i \in 1..n |-> " "]

RECURSIVE join_with(_, _)
join_with(tokens, sep) ==
    IF tokens = <<>> THEN <<>>
    ELSE IF Len(tokens) = 1 THEN tokens[1]
    ELSE tokens[1] \o sep \o join_with(Tail(tokens), sep)

TokenLists(S, n) == UNION { [1..k -> S] : k \in 0..n }

InitGames ==
    /\ in_tokens \in TokenLists(GameTokens, MaxTokens)
    /\ \E lead \in 0..1, sep \in 1..2, trail \in 0..1 :
           games_raw = Spaces(lead) \o join_with(in_tokens, Spaces(sep))
                           \o Spaces(trail)
    /\ parsed = {}
    /\ games_master = <<>>
    /\ games_fabrik = <<>>
    /\ games_collector = <<>>
    /\ games_scraper = <<>>

IdleGames ==
    /\ in_tokens = <<>>
    /\ games_raw = <<>>
    /\ parsed = {}
    /\ games_master = <<>>
    /\ games_fabrik = <<>>
    /\ games_collector = <<>>
    /\ games_scraper = <<>>

ParseGamesMaster ==
    /\ parsed = {}
    /\ games_master' = parse_games(games_raw)
    /\ parsed' = parsed \cup {"master"}
    /\ UNCHANGED <<games_raw, in_tokens, games_fabrik, games_collector,
                   games_scraper,
                   nameVars, masterVars, loopVars, wttVars, ttblVars,
                   playerVars>>

ParseGameScoresFabrik ==
    /\ parsed = {}
    /\ games_fabrik' = FabrikMatchScraper_parse_game_scores(games_raw)
    /\ parsed' = parsed \cup {"fabrik"}
    /\ UNCHANGED <<games_raw, in_tokens, games_master, games_collector,
                   games_scraper,
                   nameVars, masterVars, loopVars, wttVars, ttblVars,
                   playerVars>>

ParseGameScoresCollector ==
    /\ parsed = {}
    /\ games_collector' = FabrikAPIClient_parse_game_scores(games_raw)
    /\ parsed' = parsed \cup {"collector"}
    /\ UNCHANGED <<games_raw, in_tokens, games_master, games_fabrik,
                   games_scraper,
                   nameVars, masterVars, loopVars, wttVars, ttblVars,
                   playerVars>>

ParseGameScoresScraper ==
    /\ parsed = {}
    /\ games_scraper' = ITTFComprehensiveScraper_parse_game_scores(games_raw)
    /\ parsed' = parsed \cup {"scraper"}
    /\ UNCHANGED <<games_raw, in_tokens, games_master, games_fabrik,
                   games_collector,
                   nameVars, masterVars, loopVars, wttVars, ttblVars,
                   playerVars>>

NextGames ==
    \/ ParseGamesMaster
    \/ ParseGameScoresFabrik
    \/ ParseGameScoresCollector
    \/ ParseGameScoresScraper

(***************************************************************************)
(* master_scrape.py: normalize_name                                        *)
(***************************************************************************)
or_none(s) == IF s = <<>> THEN None ELSE s

caps_of(parts) ==
    LET is_caps(p) == str_isupper(p) /\ \E i \in 1..Len(p) : char_isalpha(p[i])
    IN  SelectSeq(parts, is_caps)

\* A plausible slip: always taking the last token as the last name.
normalize_name_last_token(name) ==
    LET s == str_strip(name)
        parts == str_split(s)
    IN  IF s = <<>> THEN <<None, None, None>>
        ELSE IF Len(parts) = 1 THEN <<None, parts[1], s>>
        ELSE <<or_none(str_join(SubSeq(parts, 1, Len(parts) - 1))),
               or_none(parts[Len(parts)]), s>>

normalize_name(name) ==
    LET s == str_strip(name)
        parts == str_split(s)
        caps == caps_of(parts)
    IN  IF s = <<>> THEN <<None, None, None>>
        ELSE IF Len(parts) = 1 THEN <<None, parts[1], s>>
        ELSE IF caps # <<>>
             THEN LET last == caps[1]
                      not_last(p) == p # last
                      first_parts == SelectSeq(parts, not_last)
                      first == IF first_parts # <<>> THEN str_join(first_parts)
                               ELSE None
                  IN  <<IF first = None THEN None ELSE or_none(first),
                        or_none(last), s>>
             ELSE <<or_none(str_join(SubSeq(parts, 1, Len(parts) - 1))),
                    or_none(parts[Len(parts)]), s>>

(***************************************************************************)
(* comprehensive_collector.py: ComprehensiveDataCollector.parse_player_name*)
(***************************************************************************)
parse_player_name(name) ==
    LET parts == str_split(str_strip(name)) IN
    IF name = <<>> THEN <<None, None>>
    ELSE IF Len(parts) = 1 THEN <<parts[1], None>>
    ELSE IF Len(parts) = 2 THEN <<parts[2], parts[1]>>
    ELSE IF Len(parts) > 2 THEN <<str_join(Tail(parts)), parts[1]>>
    ELSE <<name, None>>

(***************************************************************************)
(* Inputs of the name functions                                            *)
(***************************************************************************)
NameTokens ==
    { <<"L", "I">>, <<"W", "U">>, <<"L", "i">>, <<"W", "u">>, <<"l", "i">>,
      <<"L", "1">>, <<"1">> }

InitNames ==
    /\ name_tokens \in TokenLists(NameTokens, MaxTokens)
    /\ \E sep \in 1..2 : name_core = join_with(name_tokens, Spaces(sep))
    /\ \E lead \in 0..1, trail \in 0..1 :
           full_name = Spaces(lead) \o name_core \o Spaces(trail)
    /\ name_run = {}
    /\ nn_result = <<>>
    /\ ppn_result = <<>>

IdleNames ==
    /\ name_tokens = <<>>
    /\ name_core = <<>>
    /\ full_name = <<>>
    /\ name_run = {}
    /\ nn_result = <<>>
    /\ ppn_result = <<>>

NormalizeName ==
    /\ name_run = {}
    /\ nn_result' = normalize_name(full_name)
    /\ name_run' = {"normalize_name"}
    /\ UNCHANGED <<full_name, name_tokens, name_core, ppn_result, gameVars,
                   masterVars, loopVars, wttVars, ttblVars,
                   playerVars>>

ParsePlayerName ==
    /\ name_run = {}
    /\ ppn_result' = parse_player_name(full_name)
    /\ name_run' = {"parse_player_name"}
    /\ UNCHANGED <<full_name, name_tokens, name_core, nn_result, gameVars,
                   masterVars, loopVars, wttVars, ttblVars,
                   playerVars>>

NextNames ==
    \/ NormalizeName
    \/ ParsePlayerName

(***************************************************************************)
(* master_scrape.py: compute_set_score, row_to_match                       *)
(***************************************************************************)
\* bool(v) of a str or None
py_truthy(v) == v # None /\ v # <<>>

\* str(v) of a str or None
py_str(v) == IF v = None THEN <<"N", "o", "n", "e">> ELSE v

\* v or ""
or_empty(v) == IF py_truthy(v) THEN v ELSE <<>>

RECURSIVE compute_set_score_loop(_, _, _)
compute_set_score_loop(games, a_sets, x_sets) ==
    IF games = <<>> THEN <<a_sets, x_sets>>
    ELSE LET a == Head(games).a_points
             x == Head(games).x_points
         IN  IF a > x THEN compute_set_score_loop(Tail(games), a_sets + 1, x_sets)
             ELSE IF x > a
                  THEN compute_set_score_loop(Tail(games), a_sets, x_sets + 1)
                  ELSE compute_set_score_loop(Tail(games), a_sets, x_sets)

compute_set_score(games) == compute_set_score_loop(games, 0, 0)

\* A plausible slip: a tie credited to side X (else-branch without a test).
inferred_winner_no_tie(a_sets, x_sets, a_id, x_id) ==
    IF py_truthy(a_id) \/ py_truthy(x_id)
    THEN (IF a_sets > x_sets THEN <<"A">> ELSE <<"X">>)
    ELSE None

inferred_winner(a_sets, x_sets, a_id, x_id) ==
    IF a_sets # x_sets /\ (py_truthy(a_id) \/ py_truthy(x_id))
    THEN (IF a_sets > x_sets THEN <<"A">> ELSE <<"X">>)
    ELSE None

\* the fields of the match record that main and the outputs depend on; the
\* labels passed through verbatim (tournament, event, stage, round) are left out
row_to_match(row) ==
    LET match_id == str_strip(py_str(row.id))
        a_id == or_none(str_strip(py_str(row.player_a_id)))
        x_id == IF py_truthy(row.player_x_id)
                THEN str_strip(py_str(row.player_x_id)) ELSE None
        a_name == str_strip(or_empty(row.name_a))
        x_name == str_strip(or_empty(row.name_x))
        a_assoc == or_none(str_strip(or_empty(row.assoc_a)))
        x_assoc == or_none(str_strip(or_empty(row.assoc_x)))
        games == parse_games(or_empty(row.games_raw))
        sets == compute_set_score(games)
    IN  [match_id |-> match_id,
         winner_inferred |-> inferred_winner(sets[1], sets[2], a_id, x_id),
         final_sets |-> [a |-> sets[1], x |-> sets[2]],
         games |-> games,
         players |->
            [a |-> [ittf_id |-> a_id, name |-> or_none(a_name),
                    association |-> a_assoc],
             x |-> [ittf_id |-> x_id, name |-> or_none(x_name),
                    association |-> x_assoc]]]

(***************************************************************************)
(* master_scrape.py: upsert_player and the body of main's row loop         *)
(***************************************************************************)
Put(f, k, v) == [key \in DOMAIN f \cup {k} |-> IF key = k THEN v ELSE f[key]]

EmptyDict == [key \in {} |-> None]

\* A plausible slip: a later call overwrites the name and the nationality.
upsert_player_overwrite(pl, ittf_id, name, association) ==
    IF ~py_truthy(ittf_id) THEN pl
    ELSE LET nn == normalize_name(or_empty(name))
             created ==
                 IF ittf_id \in DOMAIN pl THEN pl[ittf_id]
                 ELSE [ittf_id |-> ittf_id, first_name |-> nn[1],
                       last_name |-> nn[2], full_name |-> nn[3],
                       nationality |-> association,
                       stats |-> [matches_played |-> 0, wins |-> 0, losses |-> 0],
                       sources |-> {}]
             with_assoc ==
                 IF py_truthy(association)
                 THEN [created EXCEPT !.nationality = association]
                 ELSE created
             with_name ==
                 IF py_truthy(name)
                 THEN [with_assoc EXCEPT !.first_name = nn[1],
                                         !.last_name = nn[2],
                                         !.full_name = nn[3]]
                 ELSE with_assoc
         IN  Put(pl, ittf_id,
                 [with_name EXCEPT !.sources = @ \cup {"fabrik_matches"}])

upsert_player(pl, ittf_id, name, association) ==
    IF ~py_truthy(ittf_id) THEN pl
    ELSE LET nn == normalize_name(or_empty(name))
             created ==
                 IF ittf_id \in DOMAIN pl THEN pl[ittf_id]
                 ELSE [ittf_id |-> ittf_id, first_name |-> nn[1],
                       last_name |-> nn[2], full_name |-> nn[3],
                       nationality |-> association,
                       stats |-> [matches_played |-> 0, wins |-> 0, losses |-> 0],
                       sources |-> {}]
             with_assoc ==
                 IF py_truthy(association) /\ ~py_truthy(created.nationality)
                 THEN [created EXCEPT !.nationality = association]
                 ELSE created
             rn == normalize_name(or_empty(name))
             with_name ==
                 IF py_truthy(name) /\ ~py_truthy(with_assoc.full_name)
                 THEN [with_assoc EXCEPT !.first_name = rn[1],
                                         !.last_name = rn[2],
                                         !.full_name = rn[3]]
                 ELSE with_assoc
         IN  Put(pl, ittf_id,
                 [with_name EXCEPT !.sources = @ \cup {"fabrik_matches"}])

index_append(idx, pid, match_id) ==
    Put(idx, pid, (IF pid \in DOMAIN idx THEN idx[pid] ELSE <<>>) \o <<match_id>>)

\* A plausible slip: matches_played counted for side A alone.
count_played_side_a(pl, match) ==
    LET a_id == match.players.a.ittf_id
    IN  IF py_truthy(match.match_id) /\ py_truthy(a_id)
        THEN [pl EXCEPT ![a_id].stats.matches_played = @ + 1] ELSE pl

\* main, lines 387-393: the index and matches_played
count_played(pl, match) ==
    LET a_id == match.players.a.ittf_id
        x_id == match.players.x.ittf_id
        p1 == IF py_truthy(a_id)
              THEN [pl EXCEPT ![a_id].stats.matches_played = @ + 1] ELSE pl
    IN  IF ~py_truthy(match.match_id) THEN pl
        ELSE IF py_truthy(x_id)
             THEN [p1 EXCEPT ![x_id].stats.matches_played = @ + 1] ELSE p1

index_match(idx, match) ==
    LET a_id == match.players.a.ittf_id
        x_id == match.players.x.ittf_id
        i1 == IF py_truthy(a_id) THEN index_append(idx, a_id, match.match_id)
              ELSE idx
    IN  IF ~py_truthy(match.match_id) THEN idx
        ELSE IF py_truthy(x_id) THEN index_append(i1, x_id, match.match_id)
             ELSE i1

\* A plausible slip: crediting the result whatever winner_inferred says.
credit_result_always(pl, match) ==
    LET a_id == match.players.a.ittf_id
        x_id == match.players.x.ittf_id
    IN  IF py_truthy(match.match_id) /\ py_truthy(a_id) /\ py_truthy(x_id)
        THEN LET w == [pl EXCEPT ![a_id].stats.wins = @ + 1]
             IN  [w EXCEPT ![x_id].stats.losses = @ + 1]
        ELSE pl

\* A plausible slip: each side credited when its own id is present.
credit_result_each_side(pl, match) ==
    LET a_id == match.players.a.ittf_id
        x_id == match.players.x.ittf_id
        winner == match.winner_inferred
        win(q, id) == IF py_truthy(id) THEN [q EXCEPT ![id].stats.wins = @ + 1]
                      ELSE q
        lose(q, id) == IF py_truthy(id) THEN [q EXCEPT ![id].stats.losses = @ + 1]
                       ELSE q
    IN  IF ~py_truthy(match.match_id) THEN pl
        ELSE IF winner = <<"A">> THEN lose(win(pl, a_id), x_id)
        ELSE IF winner = <<"X">> THEN lose(win(pl, x_id), a_id)
        ELSE pl

\* main, lines 395-401: wins and losses
credit_result(pl, match) ==
    LET a_id == match.players.a.ittf_id
        x_id == match.players.x.ittf_id
        winner == match.winner_inferred
        both == py_truthy(a_id) /\ py_truthy(x_id)
    IN  IF ~py_truthy(match.match_id) THEN pl
        ELSE IF winner = <<"A">> /\ both
             THEN LET w == [pl EXCEPT ![a_id].stats.wins = @ + 1]
                  IN  [w EXCEPT ![x_id].stats.losses = @ + 1]
        ELSE IF winner = <<"X">> /\ both
             THEN LET w == [pl EXCEPT ![x_id].stats.wins = @ + 1]
                  IN  [w EXCEPT ![a_id].stats.losses = @ + 1]
        ELSE pl

\* main, lines 375-401: what main does with one yielded row
MainBody(row) ==
    LET match == row_to_match(row)
        a == match.players.a
        x == match.players.x
        upserted == upsert_player(
                        upsert_player(players, a.ittf_id, a.name, a.association),
                        x.ittf_id, x.name, x.association)
    IN  /\ matches' = Append(matches, match)
        /\ players' = credit_result(count_played(upserted, match), match)
        /\ player_match_index' = index_match(player_match_index, match)
        /\ last_row' = row
        /\ written' = written

(***************************************************************************)
(* master_scrape.py: iter_fabrik_matches, driven by main's loop over years *)
(***************************************************************************)
max_pages_per_year == 3
page_size == 500
MaxPageRows == 2

YearsArg == <<2025, 2024>>

\* what the server may put into a row: an identifier (padded, empty), and
\* the players with the game scores
RawIds == { <<>>, <<"7">>, <<" ", "7">>, <<"8">> }
RowKinds ==
    { <<<<"1">>, <<"2">>, <<"2", ":", "1">>>>,
      <<<<>>, None, <<"2", ":", "1">>>> }

Row(id, a, x, g) ==
    [id |-> id, player_a_id |-> a, player_x_id |-> x, games_raw |-> g,
     name_a |-> IF a = <<"1">> THEN <<"L", "I", " ", "L", "i">> ELSE None,
     name_x |-> IF x = <<"2">> THEN <<"W", "u">> ELSE None,
     assoc_a |-> None, assoc_x |-> None]

ServerRows == { Row(id, k[1], k[2], k[3]) : id \in RawIds, k \in RowKinds }

NoRow == [id |-> None]

\* the identifier of a row as the claims count it: the stripped text of
\* vw_matches___id
ReturnedId(row) == str_strip(IF row.id = None THEN <<"N", "o", "n", "e">> ELSE row.id)

\* A plausible slip: de-duplicating on the raw identifier.
match_id_of_raw(row) == py_str(row.id)

\* line 201
match_id_of(row) == str_strip(py_str(row.id))

\* lines 202-205: the row is yielded
is_new_match(match_id, seen) == match_id # <<>> /\ match_id \notin seen

\* A plausible slip: a page without new identifiers does not count.
stagnant_after_never(stagnant, count) == 0

\* lines 210-213
stagnant_after(stagnant, count) == IF count = 0 THEN stagnant + 1 ELSE 0

\* fetch_fabrik_page: the number of rows it returns for a decoded body that
\* is a list of n rows, a list holding one list of n rows, or not a list
fetch_fabrik_page(shape, n) == IF shape = "object" THEN 0 ELSE n

(***************************************************************************)
(* master_scrape.py: upsert_player, called with any arguments              *)
(***************************************************************************)
MaxUpserts == 2

UpsertIds == {<<>>, <<"1">>, <<"2">>}
UpsertNames == {None, <<" ">>, <<"L", "I", " ", "L", "i">>, <<"W", "u">>}
UpsertAssocs == {None, <<"L">>, <<"W">>}

InitUpsert ==
    /\ up_players = EmptyDict
    /\ up_calls = <<>>

IdleUpsert == InitUpsert

\* one call of upsert_player(players, ittf_id, name, association)
Upsert ==
    /\ Len(up_calls) < MaxUpserts
    /\ \E ittf_id \in UpsertIds, name \in UpsertNames, association \in UpsertAssocs :
         /\ up_players' = upsert_player(up_players, ittf_id, name, association)
         /\ up_calls' = Append(up_calls, [ittf_id |-> ittf_id, name |-> name,
                                          association |-> association])
    /\ UNCHANGED <<ms_pc, years, iterVars, mainVars, histVars, gameVars,
                   nameVars, loopVars, wttVars, ttblVars,
                   playerVars>>

NextUpsert == Upsert


InitMaster ==
    /\ IdleUpsert
    /\ ms_pc = "main"
    /\ years = YearsArg
    /\ seen_ids = {}
    /\ offset = 0
    /\ stagnant_pages = 0
    /\ page = 0
    /\ pending = 0
    /\ new_count = 0
    /\ players = EmptyDict
    /\ matches = <<>>
    /\ player_match_index = EmptyDict
    /\ written = {}
    /\ requests = <<>>
    /\ page_log = <<>>
    /\ ids_returned = {}
    /\ page_fresh = FALSE
    /\ yielded = <<>>
    /\ last_row = NoRow

\* main, line 371-374: the next year; iter_fabrik_matches starts afresh
NextYear ==
    /\ ms_pc = "main"
    /\ years # <<>>
    /\ years' = Tail(years)
    /\ seen_ids' = {}
    /\ offset' = 0
    /\ stagnant_pages' = 0
    /\ page' = 0
    /\ pending' = 0
    /\ new_count' = 0
    /\ requests' = <<>>
    /\ page_log' = <<>>
    /\ ids_returned' = {}
    /\ page_fresh' = FALSE
    /\ yielded' = <<>>
    /\ ms_pc' = IF 0 < max_pages_per_year THEN "fetch" ELSE "main"
    /\ UNCHANGED <<mainVars, gameVars, nameVars, loopVars, wttVars, ttblVars,
                   upsertVars,
                   playerVars>>

\* lines 195-199: a page arrives. Its rows are drawn as the loop reaches
\* them (IterRow): the server's choice of them depends on nothing the loop
\* does in between, so the runs are the same.
FetchPage ==
    /\ ms_pc = "fetch"
    /\ \E shape \in {"list", "nested", "object"}, n \in 0..MaxPageRows :
         LET rows == fetch_fabrik_page(shape, n) IN
         /\ requests' = Append(requests, offset)
         /\ IF rows = 0
            THEN /\ ms_pc' = "main"
                 /\ page_log' = Append(page_log, "empty")
                 /\ UNCHANGED <<pending, new_count>>
            ELSE /\ ms_pc' = "rows"
                 /\ pending' = rows
                 /\ new_count' = 0
                 /\ UNCHANGED page_log
    /\ page_fresh' = FALSE
    /\ UNCHANGED <<years, seen_ids, offset, stagnant_pages, page, mainVars,
                   ids_returned, yielded, gameVars, nameVars, loopVars, wttVars, ttblVars,
                   upsertVars,
                   playerVars>>

\* lines 175-178: the request fails (HTTP error status, transport error,
\* body that is not JSON); nothing catches the exception
FetchFails ==
    /\ ms_pc = "fetch"
    /\ requests' = Append(requests, offset)
    /\ ms_pc' = "crashed"
    /\ UNCHANGED <<years, iterVars, mainVars, page_log, ids_returned,
                   page_fresh, yielded, gameVars, nameVars, loopVars, wttVars, ttblVars,
                   upsertVars,
                   playerVars>>

\* lines 200-208 and main's loop body for a yielded row
IterRow ==
    /\ ms_pc = "rows"
    /\ pending > 0
    /\ \E row \in ServerRows :
         LET match_id == match_id_of(row) IN
         /\ page_fresh' = (page_fresh \/ ReturnedId(row) \notin ids_returned \cup {<<>>})
         /\ ids_returned' = ids_returned \cup ({ReturnedId(row)} \ {<<>>})
         /\ IF is_new_match(match_id, seen_ids)
            THEN /\ seen_ids' = seen_ids \cup {match_id}
                 /\ new_count' = new_count + 1
                 /\ yielded' = Append(yielded, ReturnedId(row))
                 /\ MainBody(row)
            ELSE UNCHANGED <<seen_ids, new_count, yielded, mainVars>>
    /\ pending' = pending - 1
    /\ UNCHANGED <<ms_pc, years, offset, stagnant_pages, page,
                   requests, page_log, gameVars, nameVars, loopVars, wttVars, ttblVars,
                   upsertVars,
                   playerVars>>

\* lines 210-221: the end of a page
EndPage ==
    /\ ms_pc = "rows"
    /\ pending = 0
    /\ stagnant_pages' = stagnant_after(stagnant_pages, new_count)
    /\ IF stagnant_pages' >= 2
       THEN /\ ms_pc' = "main"
            /\ UNCHANGED <<offset, page>>
       ELSE /\ offset' = offset + page_size
            /\ page' = page + 1
            /\ ms_pc' = IF page + 1 < max_pages_per_year THEN "fetch" ELSE "main"
    /\ page_log' = Append(page_log, IF page_fresh THEN "fresh" ELSE "stale")
    /\ UNCHANGED <<years, seen_ids, pending, new_count, mainVars, requests,
                   ids_returned, page_fresh, yielded, gameVars, nameVars, loopVars, wttVars, ttblVars,
                   upsertVars,
                   playerVars>>

\* main, lines 409-440: the outputs
WriteOutputs ==
    /\ ms_pc = "main"
    /\ years = <<>>
    /\ written' = {"players.json", "matches.json", "player_match_index.json",
                   "dataset.json"}
    /\ ms_pc' = "done"
    /\ UNCHANGED <<years, iterVars, players, matches, player_match_index,
                   last_row, histVars, gameVars, nameVars, loopVars, wttVars, ttblVars,
                   upsertVars,
                   playerVars>>

Next ==
    \/ NextYear
    \/ FetchPage
    \/ FetchFails
    \/ IterRow
    \/ EndPage
    \/ WriteOutputs

(***************************************************************************)
(* main's row loop on its own: the rows iter_fabrik_matches can yield over *)
(* the years (any row whose stripped identifier is not empty)              *)
(***************************************************************************)
MaxMainRows == 2

MainIds == { <<"7">> }
MainSidesA == { <<>>, <<"1">> }
MainSidesX == { None, <<" ">>, <<"1">>, <<"2">> }
MainGames ==
    { <<>>, <<"2", ":", "1">>, <<"1", ":", "2">>, <<"1", ":", "1">>,
      <<"2", ":", "1", " ", "1", ":", "2">>,
      <<"1", ":", "2", " ", "x", " ", "1", ":", "2">> }

MainRows ==
    { Row(id, a, x, g) : id \in MainIds, a \in MainSidesA, x \in MainSidesX,
                         g \in MainGames }

MainRow ==
    /\ ms_pc = "rows"
    /\ Len(matches) < MaxMainRows
    /\ \E row \in MainRows : MainBody(row)
    /\ UNCHANGED <<ms_pc, years, iterVars, histVars, gameVars, nameVars, loopVars, wttVars, ttblVars,
                   upsertVars,
                   playerVars>>

NextMain == MainRow

InitMainLoop ==
    /\ IdleUpsert
    /\ ms_pc = "rows"
    /\ years = <<>>
    /\ seen_ids = {}
    /\ offset = 0
    /\ stagnant_pages = 0
    /\ page = 0
    /\ pending = 0
    /\ new_count = 0
    /\ players = EmptyDict
    /\ matches = <<>>
    /\ player_match_index = EmptyDict
    /\ written = {}
    /\ requests = <<>>
    /\ page_log = <<>>
    /\ ids_returned = {}
    /\ page_fresh = FALSE
    /\ yielded = <<>>
    /\ last_row = NoRow

IdleMaster ==
    /\ IdleUpsert
    /\ ms_pc = "done"
    /\ years = <<>>
    /\ seen_ids = {}
    /\ offset = 0
    /\ stagnant_pages = 0
    /\ page = 0
    /\ pending = 0
    /\ new_count = 0
    /\ players = EmptyDict
    /\ matches = <<>>
    /\ player_match_index = EmptyDict
    /\ written = {}
    /\ requests = <<>>
    /\ page_log = <<>>
    /\ ids_returned = {}
    /\ page_fresh = FALSE
    /\ yielded = <<>>
    /\ last_row = NoRow

(***************************************************************************)
(* fabrik_match_scraper.py: FabrikMatchScraper.scrape_year, and            *)
(* comprehensive_collector.py: ComprehensiveDataCollector                  *)
(* .scrape_matches_by_year (the same loop, with the class's own            *)
(* fetch_matches and parse_game_scores)                                    *)
(***************************************************************************)
max_matches == 3

YearRows ==
    { Row(id, <<"1">>, <<"2">>, <<"2", ":", "1">>) : id \in {<<"7">>, <<"8">>} }

Pages(rows) == UNION { [1..n -> rows] : n \in 0..MaxPageRows }

\* fetch_matches builds its query from option, view, listid, format, limit
\* and the year filter (and player_id when given); no key of it carries a
\* start or an offset
fetch_matches_params(year, limit) ==
    [option |-> "com_fabrik", view |-> "list", listid |-> "31",
     format |-> "json", limit |-> limit, yr |-> year]

\* the row offset a query asks the server for: its limitstart/start key,
\* and the first row when it has none
requested_offset(params) ==
    IF "limitstart31" \in DOMAIN params THEN params.limitstart31
    ELSE IF "start" \in DOMAIN params THEN params.start
    ELSE 0

\* fetch_matches: the decoded body if it is a list, [] otherwise and on any
\* exception. A body [[rows]] is a list with one element, the inner list.
fetch_matches(body) ==
    IF body.shape = "list" THEN body.rows
    ELSE IF body.shape = "nested" THEN <<body.rows>>
    ELSE <<>>

class_parse_game_scores(class, games_string) ==
    IF class = "FabrikMatchScraper"
    THEN FabrikMatchScraper_parse_game_scores(games_string)
    ELSE FabrikAPIClient_parse_game_scores(games_string)

\* the Match built from a row (the fields the loops and the players'
\* discovery read)
to_Match(class, match_data) ==
    [match_id |-> py_str(match_data.id),
     player_id |-> py_str(match_data.player_a_id),
     player_name |-> match_data.name_a,
     opponent_name |-> match_data.name_x,
     opponent_id |-> IF py_truthy(match_data.player_x_id)
                     THEN py_str(match_data.player_x_id) ELSE None,
     games |-> class_parse_game_scores(class, match_data.games_raw)]

InitYear ==
    /\ sy_class \in {"FabrikMatchScraper", "ComprehensiveDataCollector"}
    /\ sy_pc = "loop"
    /\ sy_all_matches = <<>>
    /\ sy_offset = 0
    /\ sy_requests = <<>>

IdleYear ==
    /\ sy_class = "FabrikMatchScraper"
    /\ sy_pc = "done"
    /\ sy_all_matches = <<>>
    /\ sy_offset = 0
    /\ sy_requests = <<>>

\* while len(all_matches) < max_matches: fetch_matches(year=year, limit=limit)
YearRequest ==
    /\ sy_pc = "loop"
    /\ Len(sy_all_matches) < max_matches
    /\ sy_requests' = Append(sy_requests,
                          requested_offset(fetch_matches_params(2025, 100)))
    /\ sy_pc' = "await"
    /\ UNCHANGED <<discoverVars, argVars, sy_class, sy_all_matches, sy_offset, csVars, gameVars,
                   nameVars, masterVars, wttVars, ttblVars,
                   playerVars>>

\* the loop condition fails: return all_matches
YearReturn ==
    /\ sy_pc = "loop"
    /\ Len(sy_all_matches) >= max_matches
    /\ sy_pc' = "done"
    /\ UNCHANGED <<discoverVars, argVars, sy_class, sy_all_matches, sy_offset, sy_requests, csVars,
                   gameVars, nameVars, masterVars, wttVars, ttblVars,
                   playerVars>>

\* the response and the rest of the loop body
YearResponse ==
    /\ sy_pc = "await"
    /\ \E shape \in {"list", "nested", "other"}, rows \in Pages(YearRows) :
         LET fetched == fetch_matches([shape |-> shape, rows |-> rows]) IN
         IF fetched = <<>>
         THEN \* if not matches: break
              /\ sy_pc' = "done"
              /\ UNCHANGED sy_all_matches
         ELSE IF shape = "nested"
         THEN \* match_data is a list: match_data.get raises AttributeError
              /\ sy_pc' = "crashed"
              /\ UNCHANGED sy_all_matches
         ELSE /\ sy_all_matches' = sy_all_matches \o
                    [k \in 1..Len(fetched) |-> to_Match(sy_class, fetched[k])]
              /\ sy_pc' = "loop"
    /\ UNCHANGED <<discoverVars, argVars, sy_class, sy_offset, sy_requests, csVars, gameVars,
                   nameVars, masterVars, wttVars, ttblVars,
                   playerVars>>

NextYearLoop ==
    \/ YearRequest
    \/ YearReturn
    \/ YearResponse

(***************************************************************************)
(* fabrik_match_scraper.py: main, the argument loop                        *)
(***************************************************************************)
MaxArgs == 3

YearFlag == <<"-", "-", "y", "e", "a", "r">>
MaxMatchesFlag == <<"-", "-", "m", "a", "x">>

ArgTokens == {YearFlag, MaxMatchesFlag, <<"2">>, <<"x">>}

\* sys.argv: the script name and up to MaxArgs arguments
ArgVectors ==
    { <<<<"p">>>> \o args : args \in UNION { [1..n -> ArgTokens] : n \in 0..MaxArgs } }

\* sys.argv[i], with Python's indices
argv_at(argv, i) == argv[i + 1]

InitArgs ==
    /\ ap_pc = "start"
    /\ ap_argv \in ArgVectors
    /\ ap_i = 1
    /\ ap_years = <<>>
    /\ ap_max_matches = 1000

IdleArgs ==
    /\ ap_pc = "exit1"
    /\ ap_argv = <<<<"p">>>>
    /\ ap_i = 1
    /\ ap_years = <<>>
    /\ ap_max_matches = 1000

\* lines 348-369
ArgStart ==
    /\ ap_pc = "start"
    /\ ap_pc' = IF Len(ap_argv) < 3 THEN "exit1" ELSE "while"
    /\ UNCHANGED <<discoverVars, ap_argv, ap_i, ap_years, ap_max_matches, yearVars, csVars,
                   gameVars, nameVars, masterVars, wttVars, ttblVars,
                   playerVars>>

\* line 371, and lines 391-397 when the loop is left
ArgWhile ==
    /\ ap_pc = "while"
    /\ ap_pc' = IF ap_i < Len(ap_argv) THEN "body"
                ELSE IF ap_years = <<>> THEN "exit1" ELSE "proceed"
    /\ UNCHANGED <<discoverVars, ap_argv, ap_i, ap_years, ap_max_matches, yearVars, csVars,
                   gameVars, nameVars, masterVars, wttVars, ttblVars,
                   playerVars>>

\* lines 372-389: one pass of the loop body
arg_step(argv, i, yrs, mm) ==
    LET has_value == i + 1 < Len(argv)
        value == IF has_value THEN py_int(argv_at(argv, i + 1)) ELSE NoInt
        same == [pc |-> "while", i |-> i, years |-> yrs, max_matches |-> mm]
    IN  IF argv_at(argv, i) = YearFlag
        THEN IF ~has_value THEN same
             ELSE IF value = NoInt THEN [same EXCEPT !.pc = "exit1"]
             ELSE [same EXCEPT !.i = i + 2, !.years = Append(yrs, IntOf(value))]
        ELSE IF argv_at(argv, i) = MaxMatchesFlag
        THEN IF ~has_value THEN same
             ELSE IF value = NoInt THEN [same EXCEPT !.pc = "exit1"]
             ELSE [same EXCEPT !.i = i + 2, !.max_matches = IntOf(value)]
        ELSE [same EXCEPT !.i = i + 1]

ArgBody ==
    /\ ap_pc = "body"
    /\ LET out == arg_step(ap_argv, ap_i, ap_years, ap_max_matches) IN
         /\ ap_pc' = out.pc
         /\ ap_i' = out.i
         /\ ap_years' = out.years
         /\ ap_max_matches' = out.max_matches
    /\ UNCHANGED <<discoverVars, ap_argv, yearVars, csVars, gameVars, nameVars, masterVars,
                   wttVars, ttblVars,
                   playerVars>>

NextArgs ==
    \/ ArgStart
    \/ ArgWhile
    \/ ArgBody

(***************************************************************************)
(* comprehensive_collector.py: Match, Player and                           *)
(* ComprehensiveDataCollector.discover_players_from_matches                *)
(***************************************************************************)
MaxYears == 3

\* lines 106-121: the attributes Match.__init__ sets, each as a field name
\* and a suffix
MatchAttributes ==
    { <<"match", "_id">>, <<"player", "_id">>, <<"player", "_name">>,
      <<"opponent", "_id">>, <<"opponent", "_name">>,
      <<"player", "_association">>, <<"opponent", "_association">>,
      <<"tournament", "">>, <<"event", "">>, <<"stage", "">>,
      <<"round_num", "">>, <<"date", "">>, <<"year", "">>, <<"games", "">>,
      <<"winner", "_id">>, <<"walkover", "">> }

\* lines 48-58: the keyword parameters of Player.__init__
PlayerParameters ==
    {"ittf_id", "first_name", "last_name", "full_name", "dob", "nationality",
     "gender", "source"}

\* lines 515-525: the keywords discover_players_from_matches passes
PlayerKeywords ==
    {"ittf_id", "first_name", "last_name", "full_name", "dob", "nationality",
     "gender", "source", "scraped_at"}

\* line 507
PlayerFields == <<"player_a", "player_x", "player_y">>

\* the value of an attribute the Match has
match_attr(match, attr) ==
    CASE attr = <<"player", "_id">> -> match.player_id
      [] attr = <<"opponent", "_id">> -> match.opponent_id
      [] attr = <<"player", "_name">> -> match.player_name
      [] attr = <<"opponent", "_name">> -> match.opponent_name
      [] OTHER -> None

\* lines 508-528 for the fields from position k on; the result is the
\* discovered set, the players and whether an exception was raised
RECURSIVE discover_fields(_, _, _, _)
discover_fields(match, k, discovered, db) ==
    IF k > Len(PlayerFields)
    THEN [discovered |-> discovered, db |-> db, raised |-> FALSE]
    ELSE IF <<PlayerFields[k], "_id">> \notin MatchAttributes
            \/ <<PlayerFields[k], "_name">> \notin MatchAttributes
    THEN \* getattr raises AttributeError
         [discovered |-> discovered, db |-> db, raised |-> TRUE]
    ELSE LET player_id == match_attr(match, <<PlayerFields[k], "_id">>)
             player_name == match_attr(match, <<PlayerFields[k], "_name">>)
         IN  IF py_truthy(player_id) /\ player_id \notin discovered
             THEN IF ~(PlayerKeywords \subseteq PlayerParameters)
                  THEN \* Player() raises TypeError
                       [discovered |-> discovered, db |-> db, raised |-> TRUE]
                  ELSE discover_fields(match, k + 1,
                           discovered \cup {player_id},
                           Put(db, player_id, parse_player_name(player_name)))
             ELSE discover_fields(match, k + 1, discovered, db)

\* lines 506-529 for the matches from position m on
RECURSIVE discover_matches(_, _, _, _)
discover_matches(ms, m, discovered, db) ==
    IF m > Len(ms)
    THEN [discovered |-> discovered, db |-> db, raised |-> FALSE]
    ELSE LET out == discover_fields(ms[m], 1, discovered, db) IN
         IF out.raised THEN out
         ELSE discover_matches(ms, m + 1, out.discovered, out.db)

\* what scrape_matches_by_year can return for a year
ScrapedMatches ==
    { [k \in 1..Len(rows) |-> to_Match("ComprehensiveDataCollector", rows[k])] :
          rows \in Pages(YearRows) }

InitDiscover ==
    /\ dp_pc = "scan"
    /\ dp_years \in UNION { [1..n -> {2024, 2025}] : n \in 0..MaxYears }
    /\ dp_discovered = {}
    /\ dp_players_db = EmptyDict
    /\ dp_scanned = <<>>

IdleDiscover ==
    /\ dp_pc = "returned"
    /\ dp_years = <<>>
    /\ dp_discovered = {}
    /\ dp_players_db = EmptyDict
    /\ dp_scanned = <<>>

\* lines 501-529: one year
DiscoverYear ==
    /\ dp_pc = "scan"
    /\ dp_years # <<>>
    /\ \E scraped \in ScrapedMatches :
         LET out == discover_matches(scraped, 1, dp_discovered, dp_players_db) IN
         /\ dp_scanned' = Append(dp_scanned, scraped)
         /\ dp_discovered' = out.discovered
         /\ dp_players_db' = out.db
         /\ dp_pc' = IF out.raised THEN "raised" ELSE "scan"
         /\ dp_years' = IF out.raised THEN dp_years ELSE Tail(dp_years)
    /\ UNCHANGED <<yearVars, csVars, argVars, gameVars, nameVars, masterVars,
                   wttVars, ttblVars,
                   playerVars>>

\* lines 531-532
DiscoverReturn ==
    /\ dp_pc = "scan"
    /\ dp_years = <<>>
    /\ dp_pc' = "returned"
    /\ UNCHANGED <<dp_years, dp_discovered, dp_players_db, dp_scanned, yearVars,
                   csVars, argVars, gameVars, nameVars, masterVars, wttVars,
                   ttblVars,
                   playerVars>>

NextDiscover ==
    \/ DiscoverYear
    \/ DiscoverReturn

(***************************************************************************)
(* comprehensive_scraper.py:                                               *)
(* ITTFComprehensiveScraper.fetch_all_fabrik_matches_for_year              *)
(***************************************************************************)
\* start and len(all_matches) grow without bound and nothing in the loop
\* reads them: every value from the cap on is represented by the cap
StartCap == 500
AllCap == 6
cs_limit == 100

Capped(n, cap) == IF n > cap THEN cap ELSE n

\* lines 278-285: the rows of a decoded body
cs_rows_of(body) ==
    IF body.shape = "nested" \/ body.shape = "list" THEN body.rows ELSE <<>>

InitCS ==
    /\ cs_pc = "loop"
    /\ cs_start = 0
    /\ cs_all_len = 0
    /\ cs_page = <<>>

IdleCS ==
    /\ cs_pc = "done"
    /\ cs_start = 0
    /\ cs_all_len = 0
    /\ cs_page = <<>>

\* while True: session.get(..., params with "start": start)
CSRequest ==
    /\ cs_pc = "loop"
    /\ cs_pc' = "await"
    /\ UNCHANGED <<discoverVars, argVars, cs_start, cs_all_len, cs_page, yearVars, gameVars,
                   nameVars, masterVars, wttVars, ttblVars,
                   playerVars>>

\* lines 275-295: a body arrives
CSResponse ==
    /\ cs_pc = "await"
    /\ \E shape \in {"list", "nested", "other"}, rows \in Pages(YearRows) :
         LET fetched == cs_rows_of([shape |-> shape, rows |-> rows]) IN
         /\ cs_page' = [k \in 1..Len(fetched) |-> fetched[k].id]
         /\ IF fetched = <<>>
            THEN /\ cs_pc' = "done"
                 /\ UNCHANGED <<cs_start, cs_all_len>>
            ELSE /\ cs_all_len' = Capped(cs_all_len + Len(fetched), AllCap)
                 /\ cs_start' = Capped(cs_start + cs_limit, StartCap)
                 /\ cs_pc' = "loop"
    /\ UNCHANGED <<discoverVars, argVars, yearVars, gameVars, nameVars, masterVars, wttVars, ttblVars,
                   playerVars>>

\* lines 297-299: the request raises; the loop breaks
CSRequestFails ==
    /\ cs_pc = "await"
    /\ cs_pc' = "done"
    /\ UNCHANGED <<discoverVars, argVars, cs_start, cs_all_len, cs_page, yearVars, gameVars,
                   nameVars, masterVars, wttVars, ttblVars,
                   playerVars>>

NextCS ==
    \/ CSRequest
    \/ CSResponse
    \/ CSRequestFails

(***************************************************************************)
(* wtt_ittf_scraper.py: WTTRestScraper._request_with_retry                 *)
(***************************************************************************)
max_retries == 3

\* What one session.request meets: a response (its status, its Retry-After
\* header, None when absent, and whether its body parses as JSON) or a
\* requests.RequestException raised by the transport.
Response(status, retry_after, json_ok) ==
    [error |-> FALSE, status_code |-> status, retry_after |-> retry_after,
     json_ok |-> json_ok]

TransportError ==
    [error |-> TRUE, status_code |-> 0, retry_after |-> None, json_ok |-> FALSE]

\* Retry-After as servers send it: absent, delay seconds, an HTTP date, and
\* a malformed negative number
RetryAfterHeaders == {None, <<"1">>, <<"2">>, <<"W", "e", "d">>, <<"-", "1">>}

Responses ==
    { Response(200, None, ok) : ok \in BOOLEAN }
    \cup { Response(st, None, FALSE) : st \in {204, 401, 403, 404, 500, 503} }
    \cup { Response(429, h, FALSE) : h \in RetryAfterHeaders }
    \cup { TransportError }

Continue(secs) == [next |-> "continue", result |-> "unset", sleep |-> SomeInt(secs)]
Return(result) == [next |-> "return", result |-> result, sleep |-> NoInt]
Raise == [next |-> "raise", result |-> "unset", sleep |-> NoInt]

\* int(response.headers.get("Retry-After", 5))
retry_after_of(resp) ==
    IF resp.retry_after = None THEN SomeInt(5) ELSE py_int(resp.retry_after)

\* lines 149-153: except requests.RequestException
on_request_exception(attempt) == Continue(2 ^ attempt)

\* the mutants of attempt_body
attempt_body_retry_terminal(resp, attempt) ==
    IF resp.error THEN on_request_exception(attempt)
    ELSE IF resp.status_code = 200
    THEN Return(IF resp.json_ok THEN "json" ELSE "None")
    ELSE IF resp.status_code = 429
    THEN Continue(IntOf(retry_after_of(resp)) * (2 ^ attempt))
    ELSE on_request_exception(attempt)

attempt_body_linear_backoff(resp, attempt) ==
    IF resp.error THEN Continue(attempt + 1)
    ELSE IF resp.status_code = 429
    THEN LET retry_after == retry_after_of(resp) IN
         IF retry_after = NoInt \/ IntOf(retry_after) < 0 THEN Raise
         ELSE Continue(IntOf(retry_after) * (attempt + 1))
    ELSE IF resp.status_code = 200
    THEN Return(IF resp.json_ok THEN "json" ELSE "None")
    ELSE IF 500 <= resp.status_code /\ resp.status_code < 600
    THEN Continue(attempt + 1)
    ELSE Return("None")

\* lines 109-153: the body of one iteration of the for loop
\* A plausible slip: a 200 whose body is no JSON handled like a failed
\* request (json() raising inside the outer try).
attempt_body_retry_bad_json(resp, attempt) ==
    IF resp.error THEN on_request_exception(attempt)
    ELSE IF resp.status_code = 429
    THEN LET retry_after == retry_after_of(resp) IN
         IF retry_after = NoInt THEN Raise
         ELSE IF IntOf(retry_after) * (2 ^ attempt) < 0 THEN Raise
         ELSE Continue(IntOf(retry_after) * (2 ^ attempt))
    ELSE IF resp.status_code = 200
    THEN (IF resp.json_ok THEN Return("json") ELSE on_request_exception(attempt))
    ELSE IF resp.status_code \in {401, 403, 404}
    THEN Return("None")
    ELSE IF 500 <= resp.status_code /\ resp.status_code < 600
    THEN on_request_exception(attempt)
    ELSE Return("None")

attempt_body(resp, attempt) ==
    IF resp.error THEN on_request_exception(attempt)
    ELSE IF resp.status_code = 429
    THEN LET retry_after == retry_after_of(resp) IN
         \* int() of a header that is no integer raises ValueError, and so
         \* does time.sleep of a negative time; neither is a RequestException
         IF retry_after = NoInt THEN Raise
         ELSE IF IntOf(retry_after) * (2 ^ attempt) < 0 THEN Raise
         ELSE Continue(IntOf(retry_after) * (2 ^ attempt))
    ELSE IF resp.status_code = 200
    THEN Return(IF resp.json_ok THEN "json" ELSE "None")
    ELSE IF resp.status_code \in {401, 403, 404}
    THEN Return("None")
    ELSE IF 500 <= resp.status_code /\ resp.status_code < 600
    THEN on_request_exception(attempt)
    ELSE Return("None")

InitRetry ==
    /\ rr_pc = "attempt"
    /\ rr_attempt = 0
    /\ rr_result = "unset"
    /\ rr_requests = <<>>
    /\ rr_sleeps = <<>>

IdleRetry ==
    /\ rr_pc = "returned"
    /\ rr_attempt = 0
    /\ rr_result = "None"
    /\ rr_requests = <<>>
    /\ rr_sleeps = <<>>

\* one iteration of for attempt in range(max_retries)
Attempt ==
    /\ rr_pc = "attempt"
    /\ rr_attempt < max_retries
    /\ \E resp \in Responses :
         LET out == attempt_body(resp, rr_attempt) IN
         /\ rr_requests' = Append(rr_requests,
                                  [attempt |-> rr_attempt, response |-> resp])
         /\ rr_sleeps' = IF out.sleep = NoInt THEN rr_sleeps
                         ELSE Append(rr_sleeps, [attempt |-> rr_attempt,
                                                 secs |-> IntOf(out.sleep)])
         /\ rr_pc' = CASE out.next = "continue" -> "attempt"
                       [] out.next = "return" -> "returned"
                       [] out.next = "raise" -> "raised"
         /\ rr_result' = out.result
         /\ rr_attempt' = IF out.next = "continue" THEN rr_attempt + 1
                          ELSE rr_attempt
    /\ UNCHANGED <<batchVars, gameVars, nameVars, masterVars, loopVars,
                   ttblVars,
                   playerVars>>

\* lines 155-156: the loop is exhausted
RetriesExhausted ==
    /\ rr_pc = "attempt"
    /\ rr_attempt >= max_retries
    /\ rr_pc' = "returned"
    /\ rr_result' = "None"
    /\ UNCHANGED <<rr_attempt, rr_requests, rr_sleeps, batchVars, gameVars,
                   nameVars, masterVars, loopVars, ttblVars,
                   playerVars>>

NextRetry ==
    \/ Attempt
    \/ RetriesExhausted

(***************************************************************************)
(* wtt_ittf_scraper.py: get_player_rankings, batch_fetch_rankings          *)
(***************************************************************************)
MaxIds == 3

IttfIds == {<<"7">>, <<"8">>}

\* what _request_with_retry hands back for one id: None, a raised
\* ValueError (Retry-After), a JSON number, an object without "Result", or
\* an object whose "Result" is a list of entries ("dict": an object,
\* "scalar": anything else)
RankingLists == {<<>>, <<"dict">>, <<"scalar">>, <<"dict", "dict">>}

RetryData ==
    {[kind |-> k, Result |-> <<>>] : k \in {"None", "raise", "number", "object"}}
    \cup {[kind |-> "result", Result |-> rl] : rl \in RankingLists}

Raised == <<"raised">>

\* lines 171-176; a JSON number is truthy and "Result" in data raises
\* TypeError on it
get_player_rankings(data) ==
    CASE data.kind = "raise" -> Raised
      [] data.kind = "number" -> Raised
      [] data.kind = "result" -> data.Result
      [] OTHER -> None

\* lines 222-224: rankings[0].get raises on an entry that is no object
found_log_raises(rankings) ==
    rankings # None /\ rankings # <<>> /\ rankings[1] # "dict"

\* the mutant of on_exception: the handler stores nothing
on_exception_pass(results, ittf_id) == results

\* lines 230-232
on_exception(results, ittf_id) == Put(results, ittf_id, None)

\* lines 218-232: the try statement for one id
fetch_one(results, ittf_id, data) ==
    LET rankings == get_player_rankings(data) IN
    IF rankings = Raised THEN on_exception(results, ittf_id)
    ELSE IF found_log_raises(rankings)
    THEN on_exception(Put(results, ittf_id, rankings), ittf_id)
    ELSE Put(results, ittf_id, rankings)

fetch_one_raises(data) ==
    LET rankings == get_player_rankings(data) IN
    rankings = Raised \/ found_log_raises(rankings)

InitBatch ==
    /\ bf_pc = "loop"
    /\ bf_ittf_ids \in UNION { [1..n -> IttfIds] : n \in 0..MaxIds }
    /\ bf_i = 0
    /\ bf_results = EmptyDict
    /\ bf_fetched = <<>>

IdleBatch ==
    /\ bf_pc = "returned"
    /\ bf_ittf_ids = <<>>
    /\ bf_i = 0
    /\ bf_results = EmptyDict
    /\ bf_fetched = <<>>

\* lines 215-232: one iteration
BatchFetchOne ==
    /\ bf_pc = "loop"
    /\ bf_i < Len(bf_ittf_ids)
    /\ \E data \in RetryData :
         LET ittf_id == bf_ittf_ids[bf_i + 1] IN
         /\ bf_results' = fetch_one(bf_results, ittf_id, data)
         /\ bf_fetched' = Append(bf_fetched,
                [id |-> ittf_id, raised |-> fetch_one_raises(data)])
    /\ bf_i' = bf_i + 1
    /\ UNCHANGED <<bf_pc, bf_ittf_ids, retryVars, gameVars, nameVars,
                   masterVars, loopVars, ttblVars,
                   playerVars>>

\* line 234
BatchReturn ==
    /\ bf_pc = "loop"
    /\ bf_i >= Len(bf_ittf_ids)
    /\ bf_pc' = "returned"
    /\ UNCHANGED <<bf_ittf_ids, bf_i, bf_results, bf_fetched, retryVars,
                   gameVars, nameVars, masterVars, loopVars, ttblVars,
                   playerVars>>

NextBatch ==
    \/ BatchFetchOne
    \/ BatchReturn

(***************************************************************************)
(* scrape_ttbl_enhanced.py: the script, top to bottom                      *)
(***************************************************************************)
NUM_GAMEDAYS == 2
MaxMatchIds == 3

\* the match ids, numbered in their sort order
MatchIds == 1..MaxMatchIds

\* lines 44-46: the ids found in one schedule page, in page order
GamedayPages == {<<>>} \cup { <<m>> : m \in MatchIds }
                \cup { <<m, n>> : m \in MatchIds, n \in MatchIds }

\* what the match endpoint answers: the request raises ("error"), the text
\* is no JSON ("not_json"), the JSON is no object ("array"), an object whose
\* homeTeam is null ("null_team"), a well-formed object ("object")
MatchBodies == {"error", "not_json", "array", "null_team", "object"}

SeqRange(q) == { q[k] : k \in 1..Len(q) }

SetMin(S) == CHOOSE m \in S : \A n \in S : m <= n

RECURSIVE py_sorted(_)
py_sorted(S) ==
    IF S = {} THEN <<>> ELSE <<SetMin(S)>> \o py_sorted(S \ {SetMin(S)})

\* lines 73-74: json.loads succeeded, the file is written before anything
\* else reads the body
file_written(body) == body \in {"array", "null_team", "object"}

\* lines 76-161 run to the end without raising
match_processed(body) == body = "object"

\* lines 191-217 read every match file back and call .get on it
players_phase_raises(files) ==
    \E m \in DOMAIN files : files[m] = "array"

\* lines 237-266: match_data.get("homeTeam", {}).get("id")
summary_phase_raises(files) ==
    \E m \in DOMAIN files : files[m] = "null_team"

ReportFiles ==
    {"player_stats_final.json", "all_players.json", "unique_players.json",
     "matches_summary.json", "games_data.json", "metadata.json",
     "top_players.json", "match_states.json"}

InitTTBL ==
    /\ tt_pc = "gamedays"
    /\ tt_gameday = 1
    /\ tt_all_match_ids = <<>>
    /\ tt_i = 0
    /\ tt_match_files = <<>>
    /\ tt_processed = {}
    /\ tt_written = {}

IdleTTBL ==
    /\ tt_pc = "done"
    /\ tt_gameday = 1
    /\ tt_all_match_ids = <<>>
    /\ tt_i = 0
    /\ tt_match_files = <<>>
    /\ tt_processed = {}
    /\ tt_written = {}

\* lines 38-50: one gameday's schedule page is fetched
Gameday ==
    /\ tt_pc = "gamedays"
    /\ tt_gameday <= NUM_GAMEDAYS
    /\ \E match_ids \in GamedayPages :
         tt_all_match_ids' = tt_all_match_ids \o match_ids
    /\ tt_gameday' = tt_gameday + 1
    /\ UNCHANGED <<tt_pc, tt_i, tt_match_files, tt_processed, tt_written,
                   gameVars, nameVars, masterVars, loopVars, wttVars,
                   playerVars>>

\* line 42: fetch_url raises (urlopen's URLError or HTTPError, or the
\* decode); the loop has no try
GamedayFails ==
    /\ tt_pc = "gamedays"
    /\ tt_gameday <= NUM_GAMEDAYS
    /\ tt_pc' = "crashed"
    /\ UNCHANGED <<tt_gameday, tt_all_match_ids, tt_i, tt_match_files,
                   tt_processed, tt_written, gameVars, nameVars, masterVars,
                   loopVars, wttVars,
                   playerVars>>

\* lines 52-65: the ids are made unique and sorted, match_ids.txt is written
Discovered ==
    /\ tt_pc = "gamedays"
    /\ tt_gameday > NUM_GAMEDAYS
    /\ tt_all_match_ids' = py_sorted(SeqRange(tt_all_match_ids))
    /\ tt_written' = tt_written \cup {"match_ids.txt"}
    /\ tt_pc' = "matches"
    /\ UNCHANGED <<tt_gameday, tt_i, tt_match_files, tt_processed, gameVars,
                   nameVars, masterVars, loopVars, wttVars,
                   playerVars>>

\* lines 67-165: one match; except Exception: continue
Match ==
    /\ tt_pc = "matches"
    /\ tt_i < Len(tt_all_match_ids)
    /\ \E body \in MatchBodies :
         LET match_id == tt_all_match_ids[tt_i + 1] IN
         /\ tt_match_files' =
                IF file_written(body)
                THEN [m \in DOMAIN tt_match_files \cup {match_id} |->
                         IF m = match_id THEN body ELSE tt_match_files[m]]
                ELSE tt_match_files
         /\ tt_processed' = IF match_processed(body)
                            THEN tt_processed \cup {match_id}
                            ELSE tt_processed
    /\ tt_i' = tt_i + 1
    /\ UNCHANGED <<tt_pc, tt_gameday, tt_all_match_ids, tt_written, gameVars,
                   nameVars, masterVars, loopVars, wttVars,
                   playerVars>>

\* lines 167-305: the statistics, the players, the summaries, the metadata
\* and the reports, in that order
Reports ==
    /\ tt_pc = "matches"
    /\ tt_i >= Len(tt_all_match_ids)
    /\ IF players_phase_raises(tt_match_files)
       THEN /\ tt_written' = tt_written \cup {"player_stats_final.json"}
            /\ tt_pc' = "crashed"
       ELSE IF summary_phase_raises(tt_match_files)
       THEN /\ tt_written' = tt_written \cup {"player_stats_final.json",
                                 "all_players.json", "unique_players.json"}
            /\ tt_pc' = "crashed"
       ELSE /\ tt_written' = tt_written \cup ReportFiles
            /\ tt_pc' = "done"
    /\ UNCHANGED <<tt_gameday, tt_all_match_ids, tt_i, tt_match_files,
                   tt_processed, gameVars, nameVars, masterVars, loopVars,
                   wttVars,
                   playerVars>>

NextTTBL ==
    \/ Gameday
    \/ GamedayFails
    \/ Discovered
    \/ Match
    \/ Reports

(***************************************************************************)
(* complete_player_scraper.py: CompletePlayerScraper.scrape_category       *)
(***************************************************************************)
MaxPageIds == 2

\* line 90: page_size = 50
category_page_size == 50

\* line 105: if offset > 10000
offset_safety_limit == 10000

\* what the regular expression of line 48 can capture
RankedIds == {<<"1">>, <<"2">>}

RECURSIVE SeqsUpTo(_, _)
SeqsUpTo(S, n) ==
    IF n = 0 THEN {<<>>}
    ELSE SeqsUpTo(S, n - 1)
         \cup { Append(q, x) : q \in { r \in SeqsUpTo(S, n - 1) : Len(r) = n - 1 },
                               x \in S }

\* what session.get meets: the request raises ("exception"), the status is
\* an error and raise_for_status raises ("http_error"), or the page text
\* holds the ids of page_ids ("ok")
RankingPages ==
    { [kind |-> "exception", page_ids |-> <<>>],
      [kind |-> "http_error", page_ids |-> <<>>] }
    \cup { [kind |-> "ok", page_ids |-> q] : q \in SeqsUpTo(RankedIds, MaxPageIds) }

\* lines 35-56: except Exception: return []
scrape_ranking_page(resp) ==
    IF resp.kind = "ok" THEN resp.page_ids ELSE <<>>

\* a safety test one page late
over_limit_late(o) == o > offset_safety_limit + category_page_size

\* line 105
over_limit(o) == o > offset_safety_limit

InitCategory ==
    /\ sc_pc = "loop"
    /\ sc_offset = 0
    /\ sc_category_ids = {}
    /\ sc_requests = <<>>
    /\ sc_yielded = <<>>

IdleCategory ==
    /\ sc_pc = "returned"
    /\ sc_offset = 0
    /\ sc_category_ids = {}
    /\ sc_requests = <<>>
    /\ sc_yielded = <<>>

\* lines 92-106: one pass of the while True loop
ScrapePage ==
    /\ sc_pc = "loop"
    /\ \E resp \in RankingPages :
         LET page_ids == scrape_ranking_page(resp) IN
         /\ sc_requests' = Append(sc_requests, sc_offset)
         /\ sc_yielded' = Append(sc_yielded, page_ids # <<>>)
         /\ IF page_ids = <<>>
            THEN /\ sc_pc' = "returned"
                 /\ UNCHANGED <<sc_offset, sc_category_ids>>
            ELSE /\ sc_category_ids' =
                        sc_category_ids
                        \cup { page_ids[k] : k \in 1..Len(page_ids) }
                 /\ sc_offset' = sc_offset + category_page_size
                 /\ sc_pc' = IF over_limit(sc_offset') THEN "returned"
                             ELSE "loop"
    /\ UNCHANGED <<gameVars, nameVars, masterVars, loopVars, wttVars,
                   ttblVars, statsVars, genderVars>>

NextCategory == ScrapePage

(***************************************************************************)
(* scrape_ttbl_enhanced.py: player_stats, one game of a match at a time    *)
(***************************************************************************)
MaxGames == 2

\* a JSON array where an id is expected: truthy, and no dict key
ListId == <<"list">>

NullText == <<"n", "u", "l", "l">>

\* what "id" may hold in a player object
PlayerIdValues == {None, <<>>, NullText, <<"1">>, <<"2">>, ListId}

\* what homePlayer, homeLeaguePlayer, awayPlayer, awayLeaguePlayer may hold:
\* null (or the key missing), {}, an object, a text
NullPlayer == [kind |-> "null", id |-> None]
EmptyPlayer == [kind |-> "empty", id |-> None]
TextPlayer == [kind |-> "text", id |-> None]
PlayerObject(id) == [kind |-> "object", id |-> id]

PlayerValues ==
    {NullPlayer, EmptyPlayer, TextPlayer}
    \cup { PlayerObject(id) : id \in PlayerIdValues }

\* one side of a game: <<homePlayer, homeLeaguePlayer>> (or the away pair);
\* the league player is looked at when the first value is falsy
Sides ==
    { <<pl, NullPlayer>> : pl \in PlayerValues }
    \cup { <<NullPlayer, PlayerObject(<<"2">>)>>,
           <<EmptyPlayer, PlayerObject(<<"2">>)>> }

GameStates == {<<"Finished">>, <<"Active">>}

WinnerSides == {<<"Home">>, <<"Away">>, <<"Draw">>, None}

\* the entries of match_data["games"]: objects, and one that is no object
Games ==
    { [kind |-> "object", gameState |-> st, winnerSide |-> w,
       homePlayer |-> h[1], homeLeaguePlayer |-> h[2],
       awayPlayer |-> a[1], awayLeaguePlayer |-> a[2]] :
         st \in GameStates, w \in WinnerSides, h \in Sides, a \in Sides }
    \cup { [kind |-> "text", gameState |-> None, winnerSide |-> None,
            homePlayer |-> NullPlayer, homeLeaguePlayer |-> NullPlayer,
            awayPlayer |-> NullPlayer, awayLeaguePlayer |-> NullPlayer] }

\* bool(p) of a player value
player_truthy(p) == p.kind \in {"object", "text"}

\* lines 92-93: a or b or {}
player_of(a, b) ==
    IF player_truthy(a) THEN a
    ELSE IF player_truthy(b) THEN b
    ELSE EmptyPlayer

\* lines 95-96: p.get("id") if p else None
player_id_raises(p) == p.kind = "text"
player_id(p) == IF player_truthy(p) THEN p.id ELSE None

\* lines 123 and 140: if player_id and player_id != "null"
id_counts(id) == py_truthy(id) /\ id # NullText

\* lines 124 and 141: player_id not in player_stats
unhashable(id) == id = ListId

\* A plausible slip: a loss only for the side the winner is not.
credit_side_decided(stats, id, winner_side, side, other) ==
    LET rec == IF id \in DOMAIN stats THEN stats[id]
               ELSE [gamesPlayed |-> 0, wins |-> 0, losses |-> 0]
        played == [rec EXCEPT !.gamesPlayed = @ + 1]
    IN  Put(stats, id,
            IF winner_side = side THEN [played EXCEPT !.wins = @ + 1]
            ELSE IF winner_side = other THEN [played EXCEPT !.losses = @ + 1]
            ELSE played)

\* lines 124-138 (side "Home") and 141-155 (side "Away")
credit_side(stats, id, winner_side, side, other) ==
    LET rec == IF id \in DOMAIN stats THEN stats[id]
               ELSE [gamesPlayed |-> 0, wins |-> 0, losses |-> 0]
        played == [rec EXCEPT !.gamesPlayed = @ + 1]
    IN  Put(stats, id,
            IF winner_side = side THEN [played EXCEPT !.wins = @ + 1]
            ELSE [played EXCEPT !.losses = @ + 1])

\* lines 87-155: the body of "for game in games"; raised tells that an
\* exception left the body (and the match: line 163)
process_game(stats, game) ==
    IF game.kind # "object" THEN [stats |-> stats, raised |-> TRUE]
    ELSE
    LET home_player == player_of(game.homePlayer, game.homeLeaguePlayer)
        away_player == player_of(game.awayPlayer, game.awayLeaguePlayer)
    IN  IF player_id_raises(home_player) \/ player_id_raises(away_player)
        THEN [stats |-> stats, raised |-> TRUE]
        ELSE
        LET home_player_id == player_id(home_player)
            away_player_id == player_id(away_player)
        IN  IF game.gameState # <<"Finished">>
            THEN [stats |-> stats, raised |-> FALSE]
            ELSE IF id_counts(home_player_id) /\ unhashable(home_player_id)
            THEN [stats |-> stats, raised |-> TRUE]
            ELSE
            LET after_home ==
                    IF id_counts(home_player_id)
                    THEN credit_side(stats, home_player_id, game.winnerSide,
                                     <<"Home">>, <<"Away">>)
                    ELSE stats
            IN  IF id_counts(away_player_id) /\ unhashable(away_player_id)
                THEN [stats |-> after_home, raised |-> TRUE]
                ELSE [stats |->
                         IF id_counts(away_player_id)
                         THEN credit_side(after_home, away_player_id,
                                          game.winnerSide, <<"Away">>, <<"Home">>)
                         ELSE after_home,
                      raised |-> FALSE]

RECURSIVE SumField(_, _, _)
SumField(stats, ids, field) ==
    IF ids = {} THEN 0
    ELSE LET id == CHOOSE q \in ids : TRUE
         IN  stats[id][field] + SumField(stats, ids \ {id}, field)

\* the ids that name a player
PresentIds == {<<"1">>, <<"2">>}

NoGame == [reached |-> FALSE, finished |-> FALSE, both_present |-> FALSE,
           winnerSide |-> None, raised |-> FALSE,
           wins_before |-> 0, losses_before |-> 0]

InitStats ==
    /\ ps_games = 0
    /\ ps_player_stats = EmptyDict
    /\ ps_last = NoGame

IdleStats ==
    /\ ps_games = MaxGames
    /\ ps_player_stats = EmptyDict
    /\ ps_last = NoGame

\* lines 87-155: the loop reaches the next game of the run
Game ==
    /\ ps_games < MaxGames
    /\ \E game \in Games :
         LET out == process_game(ps_player_stats, game)
             home_player == player_of(game.homePlayer, game.homeLeaguePlayer)
             away_player == player_of(game.awayPlayer, game.awayLeaguePlayer)
         IN  /\ ps_player_stats' = out.stats
             /\ ps_last' =
                   [reached |-> TRUE,
                    finished |-> game.gameState = <<"Finished">>,
                    both_present |->
                        /\ player_id(home_player) \in PresentIds
                        /\ player_id(away_player) \in PresentIds,
                    winnerSide |-> game.winnerSide,
                    raised |-> out.raised,
                    wins_before |->
                        SumField(ps_player_stats, DOMAIN ps_player_stats, "wins"),
                    losses_before |->
                        SumField(ps_player_stats, DOMAIN ps_player_stats, "losses")]
    /\ ps_games' = ps_games + 1
    /\ UNCHANGED <<gameVars, nameVars, masterVars, loopVars, wttVars,
                   ttblVars, categoryVars, genderVars>>

NextStats == Game

(***************************************************************************)
(* comprehensive_scraper.py: process_matches, one match at a time          *)
(***************************************************************************)
MaxProcessed == 2

\* vw_matches___event_raw: event codes, the empty text, null
EventCodes ==
    { <<"M", "S">>, <<"M", "D">>, <<"W", "S">>, <<"W", "D">>, <<"X", "D">>,
      <<"U", "1", "9">>, <<>>, None }

\* vw_matches___player_<suffix>_id and vw_matches___name_<suffix>
FabrikPlayerIds == { None, <<"1">>, <<"2">>, <<"3">> }
FabrikPlayerNames == { None, <<"W", "u">> }

FabrikMatches ==
    { [event_raw |-> e,
       player_a_id |-> a, name_a |-> na,
       player_x_id |-> x, name_x |-> nx,
       player_y_id |-> y, name_y |-> <<"W", "u">>] :
         e \in EventCodes, a \in FabrikPlayerIds, na \in FabrikPlayerNames,
         x \in FabrikPlayerIds, nx \in FabrikPlayerNames,
         y \in {None, <<"2">>} }

Suffixes == <<"a", "x", "y">>

\* a player record without the key "gender"
NoGender == "no gender"

suffix_id(match, suffix) ==
    IF suffix = "a" THEN match.player_a_id
    ELSE IF suffix = "x" THEN match.player_x_id
    ELSE match.player_y_id

suffix_name(match, suffix) ==
    IF suffix = "a" THEN match.name_a
    ELSE IF suffix = "x" THEN match.name_x
    ELSE match.name_y

\* lines 83-125: None without an id or a name, else the record, of which
\* the id is kept here
extract_player_from_match(match, suffix) ==
    IF ~py_truthy(suffix_id(match, suffix)) \/ ~py_truthy(suffix_name(match, suffix))
    THEN None
    ELSE py_str(suffix_id(match, suffix))

str_startswith(s, prefix) ==
    Len(s) >= Len(prefix) /\ SubSeq(s, 1, Len(prefix)) = prefix

\* event_code.startswith on a value that is no str
determine_player_gender_raises(event_code) == event_code = None

\* lines 127-136
determine_player_gender(event_code) ==
    IF str_startswith(event_code, <<"M", "S">>)
       \/ str_startswith(event_code, <<"M", "D">>) THEN "male"
    ELSE IF str_startswith(event_code, <<"W", "S">>)
            \/ str_startswith(event_code, <<"W", "D">>) THEN "female"
    ELSE IF str_startswith(event_code, <<"X", "D">>) THEN "mixed"
    ELSE "unknown"

\* lines 179-195 for the suffixes from k on; st holds all_players,
\* player_genders, first_gender and raised
RECURSIVE process_players(_, _, _)
process_players(match, k, st) ==
    IF k > Len(Suffixes) \/ st.raised THEN st
    ELSE
    LET pid == extract_player_from_match(match, Suffixes[k]) IN
    IF pid = None THEN process_players(match, k + 1, st)
    ELSE
    LET stored == IF pid \notin DOMAIN st.all_players
                  THEN Put(st.all_players, pid, NoGender)
                  ELSE st.all_players
    IN  IF pid \in DOMAIN st.player_genders
        THEN process_players(match, k + 1, [st EXCEPT !.all_players = stored])
        ELSE IF determine_player_gender_raises(match.event_raw)
        THEN [st EXCEPT !.all_players = stored, !.raised = TRUE]
        ELSE LET gender == determine_player_gender(match.event_raw) IN
             process_players(match, k + 1,
                 [all_players |-> Put(stored, pid, gender),
                  player_genders |-> Put(st.player_genders, pid, gender),
                  first_gender |->
                      IF pid \in DOMAIN st.first_gender
                      THEN st.first_gender
                      ELSE Put(st.first_gender, pid, gender),
                  raised |-> FALSE])

InitGenders ==
    /\ pm_pc = "ready"
    /\ pm_processed = 0
    /\ pm_all_players = EmptyDict
    /\ pm_player_genders = EmptyDict
    /\ pm_first_gender = EmptyDict

IdleGenders ==
    /\ pm_pc = "raised"
    /\ pm_processed = 0
    /\ pm_all_players = EmptyDict
    /\ pm_player_genders = EmptyDict
    /\ pm_first_gender = EmptyDict

\* lines 170-220: one pass of "for match in matches"; nothing in
\* process_matches or in its callers catches an exception
ProcessMatch ==
    /\ pm_pc = "ready"
    /\ pm_processed < MaxProcessed
    /\ \E match \in FabrikMatches :
         LET out == process_players(match, 1,
                        [all_players |-> pm_all_players,
                         player_genders |-> pm_player_genders,
                         first_gender |-> pm_first_gender,
                         raised |-> FALSE])
         IN  /\ pm_all_players' = out.all_players
             /\ pm_player_genders' = out.player_genders
             /\ pm_first_gender' = out.first_gender
             /\ pm_pc' = IF out.raised THEN "raised" ELSE "ready"
    /\ pm_processed' = pm_processed + 1
    /\ UNCHANGED <<gameVars, nameVars, masterVars, loopVars, wttVars,
                   ttblVars, categoryVars, statsVars>>

NextGenders == ProcessMatch

IdlePlayers == IdleCategory /\ IdleStats /\ IdleGenders

(***************************************************************************)
(* Specifications                                                          *)
(***************************************************************************)
IdleLoops == IdleYear /\ IdleCS /\ IdleArgs /\ IdleDiscover

IdleWTT == IdleRetry /\ IdleBatch

InitSpecGames == InitGames /\ IdlePlayers /\ IdleNames /\ IdleMaster /\ IdleLoops /\ IdleWTT /\ IdleTTBL

SpecGames == InitSpecGames /\ [][NextGames]_vars

InitSpecNames == InitNames /\ IdlePlayers /\ IdleGames /\ IdleMaster /\ IdleLoops /\ IdleWTT /\ IdleTTBL

Init == InitMaster /\ IdlePlayers /\ IdleGames /\ IdleNames /\ IdleLoops /\ IdleWTT /\ IdleTTBL

Spec == Init /\ [][Next]_vars

\* main runs single-threaded to completion and every request returns or
\* raises within its timeout: the program always takes its next step
FairSpec == Spec /\ WF_vars(Next)

InitSpecMain == InitMainLoop /\ IdlePlayers /\ IdleGames /\ IdleNames /\ IdleLoops /\ IdleWTT /\ IdleTTBL

SpecMain == InitSpecMain /\ [][NextMain]_vars

InitSpecYear == InitYear /\ IdleCS /\ IdlePlayers /\ IdleGames /\ IdleNames /\ IdleMaster /\ IdleWTT /\ IdleTTBL /\ IdleArgs /\ IdleDiscover

SpecYear == InitSpecYear /\ [][NextYearLoop]_vars

InitSpecCS == InitCS /\ IdleYear /\ IdlePlayers /\ IdleGames /\ IdleNames /\ IdleMaster /\ IdleWTT /\ IdleTTBL /\ IdleArgs /\ IdleDiscover

SpecCS == InitSpecCS /\ [][NextCS]_vars

\* the scraper runs single-threaded and every request returns or raises
\* within its timeout: the loop always takes its next step
FairSpecCS == SpecCS /\ WF_vars(NextCS)

InitSpecRetry ==
    InitRetry /\ IdleBatch /\ IdlePlayers /\ IdleGames /\ IdleNames /\ IdleMaster /\ IdleLoops /\ IdleTTBL

IdleAllButTTBL ==
    IdlePlayers /\ IdleGames /\ IdleNames /\ IdleMaster /\ IdleLoops /\ IdleWTT

InitSpecTTBL == InitTTBL /\ IdleAllButTTBL

InitSpecDiscover ==
    /\ InitDiscover /\ IdleYear /\ IdleCS /\ IdleArgs
    /\ IdlePlayers /\ IdleGames /\ IdleNames /\ IdleMaster /\ IdleWTT /\ IdleTTBL

SpecDiscover == InitSpecDiscover /\ [][NextDiscover]_vars

InitSpecArgs ==
    /\ InitArgs /\ IdleYear /\ IdleCS /\ IdleDiscover
    /\ IdlePlayers /\ IdleGames /\ IdleNames /\ IdleMaster /\ IdleWTT /\ IdleTTBL

SpecArgs == InitSpecArgs /\ [][NextArgs]_vars

\* the interpreter keeps executing the loop
FairSpecArgs == SpecArgs /\ WF_vars(NextArgs)

\* upsert_player alone, on an empty players dict
InitSpecUpsert ==
    /\ IdleMaster
    /\ IdlePlayers /\ IdleGames /\ IdleNames /\ IdleLoops /\ IdleWTT /\ IdleTTBL

SpecUpsert == InitSpecUpsert /\ [][NextUpsert]_vars

InitSpecBatch ==
    /\ InitBatch /\ IdleRetry
    /\ IdlePlayers /\ IdleGames /\ IdleNames /\ IdleMaster /\ IdleLoops /\ IdleTTBL

SpecBatch == InitSpecBatch /\ [][NextBatch]_vars

SpecTTBL == InitSpecTTBL /\ [][NextTTBL]_vars

SpecRetry == InitSpecRetry /\ [][NextRetry]_vars

SpecNames == InitSpecNames /\ [][NextNames]_vars

InitSpecCategory ==
    /\ InitCategory /\ IdleStats /\ IdleGenders
    /\ IdleGames /\ IdleNames /\ IdleMaster /\ IdleLoops /\ IdleWTT /\ IdleTTBL

SpecCategory == InitSpecCategory /\ [][NextCategory]_vars

\* the scraper runs single-threaded and every request returns or raises
\* within its timeout of 30 seconds
FairSpecCategory == SpecCategory /\ WF_vars(NextCategory)

InitSpecStats ==
    /\ InitStats /\ IdleCategory /\ IdleGenders
    /\ IdleGames /\ IdleNames /\ IdleMaster /\ IdleLoops /\ IdleWTT /\ IdleTTBL

SpecStats == InitSpecStats /\ [][NextStats]_vars

InitSpecGenders ==
    /\ InitGenders /\ IdleCategory /\ IdleStats
    /\ IdleGames /\ IdleNames /\ IdleMaster /\ IdleLoops /\ IdleWTT /\ IdleTTBL

SpecGenders == InitSpecGenders /\ [][NextGenders]_vars

(***************************************************************************)
(* Properties of the game-score parsers                                    *)
(***************************************************************************)
ColonCount(t) == Cardinality({i \in 1..Len(t) : t[i] = ":"})

IsIntegerText(s) ==
    LET body == IF s # <<>> /\ s[1] \in {"+", "-"} THEN Tail(s) ELSE s IN
    body # <<>> /\ \A i \in 1..Len(body) : body[i] \in Digits

\* a:b with exactly one colon and both sides integers
ValidToken(t) ==
    /\ ColonCount(t) = 1
    /\ LET i == CHOOSE j \in 1..Len(t) : t[j] = ":" IN
       /\ IsIntegerText(SubSeq(t, 1, i - 1))
       /\ IsIntegerText(SubSeq(t, i + 1, Len(t)))

\* the 1-based positions of the valid tokens, ascending
ValidPositions(tokens) ==
    LET ok(k) == ValidToken(tokens[k]) IN
    SelectSeq([k \in 1..Len(tokens) |-> k], ok)

GameNumbers(games) == [k \in 1..Len(games) |-> games[k].game_number]

\* C1: parse_games returns exactly one record per valid token, in input
\* order, none for a malformed token, and each record's game_number is the
\* 1-based position of its token among the whitespace-separated tokens.
C1_ParseGamesOneRecordPerValidToken ==
    "master" \in parsed =>
        /\ Len(games_master) = Len(ValidPositions(in_tokens))
        /\ GameNumbers(games_master) = ValidPositions(in_tokens)

\* parse_games has skipped a malformed token that precedes a valid one
C1_Witness ==
    /\ "master" \in parsed
    /\ Len(in_tokens) = 3
    /\ ~ValidToken(in_tokens[1])
    /\ ValidToken(in_tokens[2])
    /\ ValidToken(in_tokens[3])
    /\ games_raw # join_with(in_tokens, <<" ">>)
    /\ Len(games_master) = 2

\* C2 (as claimed): FabrikAPIClient.parse_game_scores numbers the record of
\* the k-th whitespace-separated token k, as parse_games does.
C2_CollectorGameNumberIsTokenPosition ==
    "collector" \in parsed =>
        GameNumbers(games_collector) = ValidPositions(in_tokens)

(***************************************************************************)
(* Properties of the name functions                                        *)
(***************************************************************************)
AllUpperCase(t) == t # <<>> /\ \A i \in 1..Len(t) : t[i] \in UpperChars

SurnameFirstname(tokens) ==
    Len(tokens) = 2 /\ AllUpperCase(tokens[1]) /\ ~AllUpperCase(tokens[2])

\* C3: normalize_name maps "SURNAME Firstname" to (first = Firstname,
\* last = SURNAME, full = the stripped input) and a single token to
\* (first = None, last = the token).
C3_NormalizeNameSurnameFirst ==
    "normalize_name" \in name_run =>
        /\ SurnameFirstname(name_tokens) =>
               nn_result = <<name_tokens[2], name_tokens[1], name_core>>
        /\ Len(name_tokens) = 1 =>
               nn_result[1] = None /\ nn_result[2] = name_tokens[1]

\* normalize_name has split a padded "SURNAME Firstname"
C3_Witness ==
    /\ "normalize_name" \in name_run
    /\ SurnameFirstname(name_tokens)
    /\ full_name # name_core
    /\ nn_result[2] = name_tokens[1]

\* C4 (as claimed): parse_player_name maps a single token to (None, token)
\* and "SURNAME Firstname" to (Firstname, SURNAME).
C4_ParsePlayerNameSingleAndTwoTokens ==
    "parse_player_name" \in name_run =>
        /\ Len(name_tokens) = 1 => ppn_result = <<None, name_tokens[1]>>
        /\ SurnameFirstname(name_tokens) =>
               ppn_result = <<name_tokens[2], name_tokens[1]>>

(***************************************************************************)
(* Properties of the winner inference                                      *)
(***************************************************************************)
TokenLeft(t) == SubSeq(t, 1, (CHOOSE j \in 1..Len(t) : t[j] = ":") - 1)
TokenRight(t) == SubSeq(t, (CHOOSE j \in 1..Len(t) : t[j] = ":") + 1, Len(t))

\* the games a side won, by the points of the well-formed tokens
GamesWonBy(side, raw) ==
    LET tokens == str_split(IF raw = None THEN <<>> ELSE raw)
        won(k) == /\ ValidToken(tokens[k])
                  /\ LET l == digits_value(TokenLeft(tokens[k]), 0)
                         r == digits_value(TokenRight(tokens[k]), 0)
                     IN  IF side = "A" THEN l > r ELSE r > l
    IN  Cardinality({k \in 1..Len(tokens) : won(k)})

LastMatch == matches[Len(matches)]

\* C5 (as claimed): whatever the other fields of the row, row_to_match
\* infers "A" when side A won strictly more games and "X" when side X did.
C5_WinnerIsSideWithMoreGames ==
    last_row # NoRow =>
        /\ GamesWonBy("A", last_row.games_raw) > GamesWonBy("X", last_row.games_raw)
               => LastMatch.winner_inferred = <<"A">>
        /\ GamesWonBy("X", last_row.games_raw) > GamesWonBy("A", last_row.games_raw)
               => LastMatch.winner_inferred = <<"X">>

StatOf(pl, p, stat) == IF p \in DOMAIN pl THEN pl[p].stats[stat] ELSE 0

\* C6: when both sides won the same number of games (no parsed game and
\* drawn games included) winner_inferred is None and the row adds no win
\* and no loss to any player.
C6_TieInfersNothing ==
    [][(Len(matches') = Len(matches) + 1
        /\ GamesWonBy("A", last_row'.games_raw) = GamesWonBy("X", last_row'.games_raw))
       => /\ matches'[Len(matches')].winner_inferred = None
          /\ \A p \in DOMAIN players' :
                /\ StatOf(players', p, "wins") = StatOf(players, p, "wins")
                /\ StatOf(players', p, "losses") = StatOf(players, p, "losses")]_vars

\* a row of one game each, between two known players one of whom already
\* has a win, has been processed
C6_Witness ==
    /\ Len(matches) = 2
    /\ last_row.games_raw = <<"2", ":", "1", " ", "1", ":", "2">>
    /\ LastMatch.final_sets = [a |-> 1, x |-> 1]
    /\ LastMatch.winner_inferred = None
    /\ <<"1">> \in DOMAIN players /\ <<"2">> \in DOMAIN players
    /\ players[<<"1">>].stats = [matches_played |-> 2, wins |-> 1, losses |-> 0]

(***************************************************************************)
(* Properties of iter_fabrik_matches                                       *)
(***************************************************************************)
\* C7: within one year's iteration no two yielded rows have the same
\* stripped identifier, and no yielded row has an empty one.
C7_YieldedIdsDistinctNonEmpty ==
    /\ \A i, j \in 1..Len(yielded) : i # j => yielded[i] # yielded[j]
    /\ \A i \in 1..Len(yielded) : yielded[i] # <<>>

\* two rows were yielded and a later page of rows brought nothing new
C7_Witness ==
    /\ Len(yielded) = 2
    /\ Len(page_log) = 2
    /\ page_log[2] = "stale"

InIter == ms_pc \in {"fetch", "rows"}

C8_RequestsBounded ==
    /\ Len(requests) <= max_pages_per_year
    /\ \A k \in 1..Len(page_log) :
           page_log[k] = "empty" => Len(requests) <= k
    /\ \A k \in 1..(Len(page_log) - 1) :
           (page_log[k] = "stale" /\ page_log[k + 1] = "stale")
               => Len(requests) <= k + 1

\* C8: iter_fabrik_matches terminates; it requests no page after an empty
\* one, none after two consecutive pages without a new identifier, and at
\* most max_pages_per_year in all.
C8_IterTerminates == []C8_RequestsBounded /\ (InIter ~> ~InIter)

\* a page with a new identifier between two without has reset the counter
C8_Witness ==
    /\ page_log = <<"stale", "fresh", "stale">>
    /\ Len(requests) = 3
    /\ stagnant_pages = 1

(***************************************************************************)
(* Properties of the other paginated loops                                 *)
(***************************************************************************)
\* C9 (as claimed): in scrape_year and scrape_matches_by_year every page
\* request asks for an offset strictly greater than the request before it.
C9_OffsetsStrictlyIncrease ==
    \A k \in 2..Len(sy_requests) : sy_requests[k] > sy_requests[k - 1]

\* C10 (as claimed): fetch_all_fabrik_matches_for_year eventually returns,
\* whatever the server answers.
C10_FetchAllTerminates == <>(cs_pc = "done")

(***************************************************************************)
(* Properties of WTTRestScraper._request_with_retry                        *)
(***************************************************************************)
\* C11 (as claimed): one call issues at most max_retries (3) HTTP requests
\* and then returns the parsed JSON body or None, whatever the server
\* answers.
C11_AtMostMaxRetriesThenReturns ==
    /\ Len(rr_requests) <= 3
    /\ rr_pc # "attempt" => rr_pc = "returned" /\ rr_result \in {"json", "None"}

TerminalStatus == {401, 403, 404}

SleptOn(a) == \E j \in 1..Len(rr_sleeps) : rr_sleeps[j].attempt = a

\* C12: a 401, 403 or 404 on any attempt ends the call at once: it is the
\* last request of the call, nothing slept on that attempt, and the call
\* has returned None.
C12_TerminalStatusReturnsNone ==
    \A k \in 1..Len(rr_requests) :
        (~rr_requests[k].response.error
         /\ rr_requests[k].response.status_code \in TerminalStatus)
        => /\ k = Len(rr_requests)
           /\ ~SleptOn(rr_requests[k].attempt)
           /\ rr_pc = "returned"
           /\ rr_result = "None"

\* a 404 met on the third attempt, after two retries
C12_Witness ==
    /\ Len(rr_requests) = 3
    /\ rr_requests[3].response.status_code = 404
    /\ Len(rr_sleeps) = 2
    /\ rr_pc = "returned"

\* the seconds the claim gives for a failure on attempt k = 0, 1, 2
BackoffSeconds(k) == <<1, 2, 4>>[k + 1]

\* Retry-After given as delay seconds, or absent
DelaySeconds(h) ==
    CASE h = None -> 5 [] h = <<"1">> -> 1 [] h = <<"2">> -> 2 [] OTHER -> -1

IsServerError(r) == ~r.error /\ r.status_code >= 500 /\ r.status_code <= 599

IsRateLimited(r) ==
    ~r.error /\ r.status_code = 429 /\ DelaySeconds(r.retry_after) >= 0

Slept(a, secs) ==
    /\ \E j \in 1..Len(rr_sleeps) :
         rr_sleeps[j] = [attempt |-> a, secs |-> secs]
    /\ \A i, j \in 1..Len(rr_sleeps) :
         rr_sleeps[i].attempt = a /\ rr_sleeps[j].attempt = a => i = j

Retried(k) ==
    /\ k = Len(rr_requests) => rr_attempt = rr_requests[k].attempt + 1
    /\ k < Len(rr_requests) =>
           rr_requests[k + 1].attempt = rr_requests[k].attempt + 1

C14_FailedRequestDoesNotAbort ==
    /\ ms_pc \in {"fetch", "rows", "main", "done"}
    /\ ms_pc = "done" => Cardinality(written) = 4

\* C15 (as claimed): in scrape_ttbl_enhanced.py no failed request aborts the
\* run, neither a schedule page's nor a match's: the run is always either
\* still looping or finished with its final files written.
C15_SingleFailureDoesNotAbort ==
    /\ tt_pc \in {"gamedays", "matches", "done"}
    /\ tt_pc = "done" => ReportFiles \cup {"match_ids.txt"} \subseteq tt_written

LastOf(k) == \A j \in (k + 1)..Len(bf_fetched) : bf_fetched[j].id # bf_fetched[k].id

\* C16: batch_fetch_rankings hands every id of the list to
\* get_player_rankings, in order, whatever was raised before; when it
\* returns, the keys of the result are exactly the distinct ids of the list;
\* and an id whose (last) handling raised maps to None.
C16_BatchOneKeyPerIdExceptionIsNone ==
    /\ Len(bf_fetched) = bf_i
    /\ \A k \in 1..bf_i : bf_fetched[k].id = bf_ittf_ids[k]
    /\ bf_pc = "returned" =>
           /\ bf_i = Len(bf_ittf_ids)
           /\ DOMAIN bf_results = SeqRange(bf_ittf_ids)
    /\ \A k \in 1..Len(bf_fetched) :
           bf_fetched[k].raised /\ LastOf(k)
               => /\ bf_fetched[k].id \in DOMAIN bf_results
                  /\ bf_results[bf_fetched[k].id] = None

\* three ids, two of them distinct: the first one's handling raised, a later
\* one was found, and the call has returned
C16_Witness ==
    /\ bf_pc = "returned"
    /\ Len(bf_fetched) = 3
    /\ bf_fetched[1].raised
    /\ bf_ittf_ids[1] # bf_ittf_ids[2]
    /\ bf_results[bf_ittf_ids[1]] = None
    /\ bf_results[bf_ittf_ids[2]] = <<"dict">>

(***************************************************************************)
(* Properties of upsert_player                                             *)
(***************************************************************************)
NonBlank(name) == name # None /\ str_strip(name) # <<>>

CallsFor(p) == { k \in 1..Len(up_calls) : up_calls[k].ittf_id = p }

NamedCalls(p) == { k \in CallsFor(p) : NonBlank(up_calls[k].name) }

AssocCalls(p) ==
    { k \in CallsFor(p) : up_calls[k].association \notin {None, <<>>} }

SetMax(S) == CHOOSE m \in S : \A n \in S : n <= m

\* C17 (as claimed): last write wins; after two calls for the same ittf_id
\* with different non-empty names (associations) the record carries the
\* name (nationality) of the later call.
C17_LastWriteWins ==
    \A p \in DOMAIN up_players :
        /\ NamedCalls(p) # {} =>
               up_players[p].full_name =
                   str_strip(up_calls[SetMax(NamedCalls(p))].name)
        /\ AssocCalls(p) # {} =>
               up_players[p].nationality =
                   up_calls[SetMax(AssocCalls(p))].association

\* C17 (amended): first write wins; the record carries the stripped name of
\* the first call for its ittf_id that gave a non-blank name, and the
\* association of the first call that gave one; later calls change neither.
C17_FirstWriteWins ==
    \A p \in DOMAIN up_players :
        /\ NamedCalls(p) # {} =>
               up_players[p].full_name =
                   str_strip(up_calls[SetMin(NamedCalls(p))].name)
        /\ NamedCalls(p) = {} => up_players[p].full_name = None
        /\ AssocCalls(p) # {} =>
               up_players[p].nationality =
                   up_calls[SetMin(AssocCalls(p))].association
        /\ AssocCalls(p) = {} => up_players[p].nationality = None

\* two calls for player 1 with different names and different associations
C17_Witness ==
    /\ Len(up_calls) = 2
    /\ up_calls[1].ittf_id = <<"1">> /\ up_calls[2].ittf_id = <<"1">>
    /\ up_calls[1].name = <<"W", "u">>
    /\ up_calls[2].name = <<"L", "I", " ", "L", "i">>
    /\ up_calls[1].association = <<"L">> /\ up_calls[2].association = <<"W">>
    /\ up_players[<<"1">>].full_name = <<"W", "u">>

(***************************************************************************)
(* Properties of fabrik_match_scraper.main                                 *)
(***************************************************************************)
\* C18 (as claimed): for every argument vector the argument loop ends, by
\* proceeding with a non-empty list of years or by exiting with status 1.
C18_ArgLoopTerminates ==
    /\ [](ap_pc = "proceed" => ap_years # <<>>)
    /\ <>(ap_pc \in {"proceed", "exit1"})

\* C19 (as claimed): scrape_year and scrape_matches_by_year never return
\* more than max_matches matches, whatever the page sizes.
C19_AtMostMaxMatches ==
    sy_pc = "done" => Len(sy_all_matches) <= max_matches

(***************************************************************************)
(* Properties of discover_players_from_matches                             *)
(***************************************************************************)
\* the player ids of the matches scanned so far
ScannedPlayerIds ==
    UNION { UNION { {dp_scanned[y][m].player_id, dp_scanned[y][m].opponent_id}
                    \ {None, <<>>} : m \in 1..Len(dp_scanned[y]) } :
            y \in 1..Len(dp_scanned) }

\* C20 (as claimed): discover_players_from_matches completes without
\* raising, and then every player id of the scraped matches is a key of
\* players_db and a member of the returned set.
C20_DiscoverCompletes ==
    /\ dp_pc # "raised"
    /\ dp_pc = "returned" =>
           /\ ScannedPlayerIds \subseteq DOMAIN dp_players_db
           /\ ScannedPlayerIds \subseteq dp_discovered

(***************************************************************************)
(* Properties of CompletePlayerScraper.scrape_category                     *)
(***************************************************************************)
\* C21: scrape_category always terminates; the k-th page request asks for
\* offset 50 * (k - 1), so the offsets are 0, 50, 100, ... in strictly
\* increasing order; no request follows a page that yielded no player id
\* (an empty page or a failed request); at most 201 requests are issued
C21_CategoryTerminates ==
    /\ [](/\ \A k \in 1..Len(sc_requests) :
                sc_requests[k] = category_page_size * (k - 1)
          /\ \A k \in 1..(Len(sc_yielded) - 1) : sc_yielded[k]
          /\ Len(sc_requests) <= 201
          /\ Len(sc_yielded) = Len(sc_requests))
    /\ <>(sc_pc = "returned")

\* every one of 201 pages had a player id and the safety test ended the call
C21_Witness ==
    /\ sc_pc = "returned"
    /\ Len(sc_requests) = 201
    /\ sc_yielded[201]

(***************************************************************************)
(* Properties of the statistics kept by master_scrape.main                 *)
(***************************************************************************)
\* C22: after any sequence of processed rows every player of players is a
\* key of player_match_index, its matches_played is the length of its index
\* entry, and its wins and losses together do not exceed its matches_played
C22_StatsAgreeWithIndex ==
    \A p \in DOMAIN players :
        /\ p \in DOMAIN player_match_index
        /\ players[p].stats.matches_played = Len(player_match_index[p])
        /\ players[p].stats.wins + players[p].stats.losses
               <= players[p].stats.matches_played

\* two rows processed; a player of both with a result in one of them only
C22_Witness ==
    /\ Len(matches) = 2
    /\ \E p \in DOMAIN players :
          /\ players[p].stats.matches_played = 2
          /\ Len(player_match_index[p]) = 2
          /\ players[p].stats.wins + players[p].stats.losses = 1

RECURSIVE SumStat(_, _, _)
SumStat(pl, ps, stat) ==
    IF ps = {} THEN 0
    ELSE LET p == CHOOSE q \in ps : TRUE
         IN  pl[p].stats[stat] + SumStat(pl, ps \ {p}, stat)

TotalStat(stat) == SumStat(players, DOMAIN players, stat)

\* a row with an inferred winner and the id of one side missing
OneSided(match) ==
    /\ match.winner_inferred # None
    /\ ~(py_truthy(match.players.a.ittf_id) /\ py_truthy(match.players.x.ittf_id))

\* C23: after any sequence of processed rows the wins of all players add up
\* to the losses of all players, and a row in which a player id is missing
\* adds to neither
C23_WinsEqualLosses ==
    /\ TotalStat("wins") = TotalStat("losses")
    /\ TotalStat("wins") <=
           Cardinality({k \in 1..Len(matches) : ~OneSided(matches[k])})

\* one row credited to both players and one row, with a winner inferred,
\* credited to nobody because the id of side X is missing
C23_Witness ==
    /\ Len(matches) = 2
    /\ TotalStat("wins") = 1
    /\ TotalStat("losses") = 1
    /\ \E k \in 1..2 : OneSided(matches[k])

\* C24 (as claimed): over a whole run of main with several years, no two
\* entries of matches carry the same match_id
C24_MatchIdsUniqueAcrossYears ==
    \A i, j \in 1..Len(matches) :
        i # j => matches[i].match_id # matches[j].match_id

(***************************************************************************)
(* Properties of the TTBL player statistics                                *)
(***************************************************************************)
TotalWins == SumField(ps_player_stats, DOMAIN ps_player_stats, "wins")
TotalLosses == SumField(ps_player_stats, DOMAIN ps_player_stats, "losses")

\* C25: after any sequence of games, a game that raised included, every
\* entry of player_stats has gamesPlayed = wins + losses and gamesPlayed >= 1
C25_GamesPlayedIsWinsPlusLosses ==
    \A id \in DOMAIN ps_player_stats :
        /\ ps_player_stats[id].gamesPlayed
               = ps_player_stats[id].wins + ps_player_stats[id].losses
        /\ ps_player_stats[id].gamesPlayed >= 1

\* a finished game credited its home player and then raised on the id of
\* its away player
C25_Witness ==
    /\ ps_last.reached /\ ps_last.raised /\ ps_last.finished
    /\ TotalWins + TotalLosses = ps_last.wins_before + ps_last.losses_before + 1

\* C26 (as claimed): a finished game with both player ids present credits
\* exactly one win and exactly one loss, whatever winnerSide holds
C26_OneWinOneLossPerFinishedGame ==
    (ps_last.reached /\ ps_last.finished /\ ps_last.both_present)
    => /\ TotalWins = ps_last.wins_before + 1
       /\ TotalLosses = ps_last.losses_before + 1

(***************************************************************************)
(* Properties of normalize_name's split                                    *)
(***************************************************************************)
TokensOf(v) == IF v = None THEN <<>> ELSE str_split(v)

Occurrences(t, tokens) == Cardinality({k \in 1..Len(tokens) : tokens[k] = t})

\* C27 (as claimed): for every non-empty input the tokens of the returned
\* first name followed by the returned last name are the whitespace-separated
\* tokens of the input, each as many times as in the input
C27_NormalizeNameLosesNoToken ==
    ("normalize_name" \in name_run /\ name_tokens # <<>>) =>
        LET returned == TokensOf(nn_result[1]) \o TokensOf(nn_result[2])
        IN  /\ Len(returned) = Len(name_tokens)
            /\ \A k \in 1..Len(name_tokens) :
                  Occurrences(name_tokens[k], returned)
                      = Occurrences(name_tokens[k], name_tokens)

(***************************************************************************)
(* Properties of the genders kept by ITTFComprehensiveScraper              *)
(***************************************************************************)
Genders == {"male", "female", "mixed", "unknown"}

GendersInStep ==
    /\ DOMAIN pm_all_players = DOMAIN pm_player_genders
    /\ \A id \in DOMAIN pm_all_players :
          /\ pm_all_players[id] \in Genders
          /\ pm_all_players[id] = pm_player_genders[id]
          /\ pm_all_players[id] = pm_first_gender[id]

\* C28 (as claimed): after any sequence of process_matches calls all_players
\* and player_genders have the same keys, every record has a gender of
\* male, female, mixed or unknown, and that gender is the one stored when
\* the player was first seen
C28_GendersInStepWithPlayers == GendersInStep

\* the same, as long as no call has raised
GendersInStepAfterReturn == pm_pc = "ready" => GendersInStep

(***************************************************************************)
(* Properties of what _request_with_retry returns                          *)
(***************************************************************************)
IsOk(r) == ~r.response.error /\ r.response.status_code = 200

\* C29: the call returns a value other than None only if its last request
\* met status 200 with a JSON body; a request that met status 200 is the
\* last one and ends the call, with the parsed body or, the body being no
\* JSON, with None
C29_NonNoneOnlyAfterOkJson ==
    /\ (rr_pc = "returned" /\ rr_result # "None") =>
           /\ rr_requests # <<>>
           /\ IsOk(rr_requests[Len(rr_requests)])
           /\ rr_requests[Len(rr_requests)].response.json_ok
    /\ \A k \in 1..Len(rr_requests) :
           IsOk(rr_requests[k]) =>
               /\ k = Len(rr_requests)
               /\ rr_pc = "returned"
               /\ rr_result = IF rr_requests[k].response.json_ok THEN "json"
                              ELSE "None"

\* two failed attempts, then a 200 with a JSON body: the body is returned
C29_Witness ==
    /\ rr_pc = "returned"
    /\ rr_result = "json"
    /\ Len(rr_requests) = 3
    /\ IsOk(rr_requests[3])

====
